---- MODULE Spec2Model ----
(***************************************************************************)
(* Model of the AI code review action: the bounded retry wrapper           *)
(* (utils/retry.ts), the diff line mapper, the suggestion validator, the   *)
(* comment synthesis and the review run (review/orchestrator.ts), the      *)
(* delivery methods of the GitHub client (github/client.ts), the loading   *)
(* of the configuration (config.ts), and run, the entry point of the       *)
(* action (index.ts).                                                      *)
(*                                                                         *)
(* Text that the code inspects character by character is modelled as a     *)
(* sequence of one-character strings, so that startsWith, includes, trim,  *)
(* split, toLowerCase and the hunk-header regular expression are computed  *)
(* as the code computes them.  Text that the code only measures, cuts and  *)
(* concatenates (the bodies handed to the delivery methods) is a string.   *)
(* An optional value (T | null, T | undefined) is the empty tuple for      *)
(* null/undefined and a one-element tuple otherwise.                       *)
(***************************************************************************)
EXTENDS Integers, Sequences, FiniteSets, TLC

VARIABLES
    \* ---- withRetry (utils/retry.ts) ----
    options,      \* the Partial<RetryOptions> argument
    attempt,      \* the loop variable of withRetry
    rpc,          \* where withRetry stands: "init", "calling", "sleeping", "done"
    calls,        \* how many times operation() has been invoked
    lastError,    \* withRetry's lastError (None while undefined)
    outcome,      \* how the promise returned by withRetry settled
    thrown,       \* the values the invocations of operation() threw, in order
    log,          \* the observable events of the call, in order
    \* ---- mapLineToDiff / getOriginalLineContent (review/orchestrator.ts) ----
    patchLines,   \* the lines of one file's patch
    targetLine,   \* the new-file line number asked for
    mapResult,    \* what mapLineToDiff returned (None is null)
    dpc,          \* "input", "mapped"
    \* ---- isValidSuggestion (review/orchestrator.ts) ----
    suggestion,   \* the proposed replacement text
    originalLine, \* the original line content (None is null)
    validResult,  \* what isValidSuggestion returned
    spc,          \* "input", "validated"
    \* ---- createReviewComments (review/orchestrator.ts) ----
    issues,       \* the ReviewIssue list of one file
    patch,        \* the lines of that file's patch
    comments,     \* the ReviewComment list createReviewComments returned
    cpc,          \* "input", "created"
    \* ---- GitHubClient delivery methods (github/client.ts) ----
    dComments,    \* the comments argument
    dBody,        \* the body argument
    called,       \* the method that was called (None before the call)
    requests,     \* the requests that carried text to the remote API, in order
    dResult,      \* how the call ended (None before the call)
    \* ---- runReview (review/orchestrator.ts) ----
    runConfig,    \* this.config: postAsReview and maxFiles
    changedFiles, \* what getChangedFiles resolves with
    fileIndex,    \* the position of the loop over filesToReview (1-based)
    allComments,  \* allComments
    fileResults,  \* fileResults
    fileLog,      \* what became of each file the loop has come to, in order
    inFlight,     \* the files whose analysis call is in flight
    overallSummary, \* overallSummary (None before generateSummary)
    posted,       \* the requests that carried text to the remote API, in order
    deliveryLog,  \* the delivery methods runReview has called, and how each ended
    runOutcome,   \* how the promise of runReview settled (None while pending)
    runPc,        \* "details", "files", "loop", "reviewing", "deliver",
                  \* "general", "done"
    \* ---- repeated calls of the line helpers (review/orchestrator.ts) ----
    blob,         \* the patchLines array handed to the calls
    lineCalls,    \* the calls made so far: function, argument, lines, result
    \* ---- loadConfig (config.ts) ----
    inputs,       \* what core.getInput returns for each input name
    cfgLog,       \* the core.setSecret and core.info calls made, in order
    cfgOutcome,   \* how loadConfig ended (None before the call)
    \* ---- run, the entry point of the action (index.ts) ----
    context,      \* what GitHubClient.getContext() returns (None for null)
    actCalls,     \* the core.setOutput, core.setFailed and logger calls, in order
    actPc         \* "start", "review" (runReview is awaited), "ended"

retryVars == <<options, attempt, rpc, calls, lastError, outcome, thrown, log>>
diffVars == <<patchLines, targetLine, mapResult, dpc>>
sugVars == <<suggestion, originalLine, validResult, spc>>
comVars == <<issues, patch, comments, cpc>>
delVars == <<dComments, dBody, called, requests, dResult>>
runVars == <<runConfig, changedFiles, fileIndex, allComments, fileResults,
             fileLog, inFlight, overallSummary, posted, deliveryLog, runOutcome,
             runPc>>
lineVars == <<blob, lineCalls>>
cfgVars == <<inputs, cfgLog, cfgOutcome>>
actVars == <<context, actCalls, actPc>>
vars == <<retryVars, diffVars, sugVars, comVars, delVars, runVars, lineVars,
          cfgVars, actVars>>

\* the variables of the other components, which a component leaves alone
besidesRetry ==
    <<diffVars, sugVars, comVars, delVars, runVars, lineVars, cfgVars, actVars>>
besidesDiff ==
    <<retryVars, sugVars, comVars, delVars, runVars, lineVars, cfgVars, actVars>>
besidesSug ==
    <<retryVars, diffVars, comVars, delVars, runVars, lineVars, cfgVars, actVars>>
besidesCom ==
    <<retryVars, diffVars, sugVars, delVars, runVars, lineVars, cfgVars, actVars>>
besidesDel ==
    <<retryVars, diffVars, sugVars, comVars, runVars, lineVars, cfgVars, actVars>>
besidesRun ==
    <<retryVars, diffVars, sugVars, comVars, delVars, lineVars, cfgVars, actVars>>
besidesLine ==
    <<retryVars, diffVars, sugVars, comVars, delVars, runVars, cfgVars, actVars>>
besidesCfg ==
    <<retryVars, diffVars, sugVars, comVars, delVars, runVars, lineVars, actVars>>
\* run of index.ts drives loadConfig and runReview; the rest stands still
besidesAct == <<retryVars, diffVars, sugVars, comVars, delVars, lineVars>>

None == <<>>
Some(v) == <<v>>

Min(a, b) == IF a <= b THEN a ELSE b

(***************************************************************************)
(* Text helpers: JavaScript string methods over character sequences.       *)
(***************************************************************************)
UpperChars == <<"A", "B", "C", "D", "E", "F", "G", "H", "I", "J", "K", "L", "M",
                "N", "O", "P", "Q", "R", "S", "T", "U", "V", "W", "X", "Y", "Z">>
LowerChars == <<"a", "b", "c", "d", "e", "f", "g", "h", "i", "j", "k", "l", "m",
                "n", "o", "p", "q", "r", "s", "t", "u", "v", "w", "x", "y", "z">>

toLowerChar(c) ==
    IF \E k \in 1..26 : UpperChars[k] = c
    THEN LowerChars[CHOOSE k \in 1..26 : UpperChars[k] = c]
    ELSE c

\* a comparison that keeps the letter case
toLowerCaseKeepCase(s) == s

\* String.prototype.toLowerCase
toLowerCase(s) == [k \in 1..Len(s) |-> toLowerChar(s[k])]

\* s has sub at index k (1-based)
MatchesAt(s, sub, k) ==
    /\ k >= 1
    /\ k + Len(sub) - 1 <= Len(s)
    /\ \A j \in 1..Len(sub) : s[k + j - 1] = sub[j]

\* String.prototype.includes
includes(s, sub) == \E k \in 1..(Len(s) + 1) : MatchesAt(s, sub, k)

\* String.prototype.startsWith
startsWith(s, prefix) == MatchesAt(s, prefix, 1)

\* the white space String.prototype.trim removes (of the characters modelled)
IsWhiteSpace(c) == c \in {" ", "\t", "\n", "\r"}

\* String.prototype.trim
trim(s) ==
    IF \A k \in 1..Len(s) : IsWhiteSpace(s[k])
    THEN <<>>
    ELSE LET first == CHOOSE k \in 1..Len(s) :
                         /\ ~IsWhiteSpace(s[k])
                         /\ \A j \in 1..(k - 1) : IsWhiteSpace(s[j])
             last == CHOOSE k \in 1..Len(s) :
                         /\ ~IsWhiteSpace(s[k])
                         /\ \A j \in (k + 1)..Len(s) : IsWhiteSpace(s[j])
         IN  SubSeq(s, first, last)

Digits == <<"0", "1", "2", "3", "4", "5", "6", "7", "8", "9">>
IsDigit(c) == \E k \in 1..10 : Digits[k] = c
DigitValue(c) == (CHOOSE k \in 1..10 : Digits[k] = c) - 1

RECURSIVE skipWhiteSpace(_)
skipWhiteSpace(s) ==
    IF s # <<>> /\ IsWhiteSpace(s[1]) THEN skipWhiteSpace(Tail(s)) ELSE s
RECURSIVE DigitRunLength(_)
DigitRunLength(s) ==
    IF s # <<>> /\ IsDigit(s[1]) THEN 1 + DigitRunLength(Tail(s)) ELSE 0

\* parseInt(s, 10) of a non-empty run of decimal digits
RECURSIVE parseInt(_)
parseInt(s) ==
    IF Len(s) = 0 THEN 0
    ELSE 10 * parseInt(SubSeq(s, 1, Len(s) - 1)) + DigitValue(s[Len(s)])

\* A number that may be NaN (the result of parseInt on an input text) is NaN
\* or Number(n) for an integer n.
NaN == <<>>
Number(n) == <<n>>

\* parseInt(text, 10) of any text: white space, an optional sign and the
\* longest run of digits are read; NaN when there is no digit
parseIntText(text) ==
    LET s == skipWhiteSpace(text)
        signed == s # <<>> /\ s[1] \in {"+", "-"}
        body == IF signed THEN Tail(s) ELSE s
        digits == SubSeq(body, 1, DigitRunLength(body))
    IN  IF digits = <<>> THEN NaN
        ELSE IF signed /\ s[1] = "-" THEN Number(0 - parseInt(digits))
        ELSE Number(parseInt(digits))

\* String(n) of a natural number
RECURSIVE numberToString(_)
numberToString(n) ==
    IF n < 10 THEN <<Digits[n + 1]>>
    ELSE numberToString(n \div 10) \o <<Digits[(n % 10) + 1]>>

(***************************************************************************)
(* withRetry                                                               *)
(***************************************************************************)
MaxAttemptsOpt == 4      \* largest maxAttempts a caller passes
MaxBackoffOpt == 2       \* largest backoffMs a caller passes
MaxCapOpt == 3           \* largest maxBackoffMs a caller passes

DefaultMaxAttempts == 3
DefaultBackoffMs == 1000
DefaultMaxBackoffMs == 30000
DefaultRetryableErrors ==
    << <<"E", "T", "I", "M", "E", "D", "O", "U", "T">>,
       <<"E", "C", "O", "N", "N", "R", "E", "S", "E", "T">>,
       <<"E", "C", "O", "N", "N", "R", "E", "F", "U", "S", "E", "D">>,
       <<"4", "2", "9">>,
       <<"5", "0", "3">>,
       <<"5", "0", "2">>,
       <<"5", "0", "4">> >>

\* a caller-supplied marker list
CustomRetryableErrors == << <<"i", "n", "v", "a", "l", "i", "d">> >>

MsgTimedOut == <<"E", "T", "I", "M", "E", "D", "O", "U", "T">>
MsgConnReset == <<"e", "c", "o", "n", "n", "r", "e", "s", "e", "t">>
MsgInvalid == <<"I", "n", "v", "a", "l", "i", "d", " ", "r", "e", "q", "u", "e", "s", "t">>
MsgUnknown == <<"U", "n", "k", "n", "o", "w", "n", " ", "e", "r", "r", "o", "r", " ",
                "i", "n", " ", "r", "e", "t", "r", "y", " ", "l", "o", "o", "p">>

\* what an invocation of operation() may throw: Error objects, and a thrown
\* string (not an Error) whose text is a retryable marker
ThrownKinds ==
    { [isError |-> TRUE, message |-> MsgTimedOut],
      [isError |-> TRUE, message |-> MsgConnReset],
      [isError |-> TRUE, message |-> MsgInvalid],
      [isError |-> FALSE, message |-> MsgTimedOut] }

\* what an invocation of operation() may resolve with
ResultValues == {"success"}

\* a thrown value; id is the invocation that threw it (0: made by withRetry)
PlainError(id, isError, message) ==
    [id |-> id, isError |-> isError, name |-> "Error", message |-> message,
     originalError |-> None, attempts |-> 0]

\* RetryExhaustedError built with the attempts already completed, not the
\* attempt that has just failed
RetryExhaustedErrorMiscount(originalError, attempts) ==
    [id |-> 0, isError |-> TRUE, name |-> "RetryExhaustedError",
     message |-> originalError.message,
     originalError |-> Some(originalError), attempts |-> attempts - 1]

\* class RetryExhaustedError
RetryExhaustedError(originalError, attempts) ==
    [id |-> 0, isError |-> TRUE, name |-> "RetryExhaustedError",
     message |-> <<"F", "a", "i", "l", "e", "d", " ", "a", "f", "t", "e", "r", " ">>
                 \o numberToString(attempts)
                 \o <<" ", "a", "t", "t", "e", "m", "p", "t", "s", ":", " ">>
                 \o originalError.message,
     originalError |-> Some(originalError), attempts |-> attempts]

\* a config object in which the caller's markers are added to the defaults
configExtendsDefaults ==
    [maxAttempts |-> IF options.maxAttempts = None
                     THEN DefaultMaxAttempts ELSE options.maxAttempts[1],
     backoffMs |-> IF options.backoffMs = None
                   THEN DefaultBackoffMs ELSE options.backoffMs[1],
     maxBackoffMs |-> IF options.maxBackoffMs = None
                      THEN DefaultMaxBackoffMs ELSE options.maxBackoffMs[1],
     retryableErrors |-> IF options.retryableErrors = None
                         THEN DefaultRetryableErrors
                         ELSE DefaultRetryableErrors \o options.retryableErrors[1]]

\* the config object of withRetry: the defaults, overridden by the options given
config ==
    [maxAttempts |-> IF options.maxAttempts = None
                     THEN DefaultMaxAttempts ELSE options.maxAttempts[1],
     backoffMs |-> IF options.backoffMs = None
                   THEN DefaultBackoffMs ELSE options.backoffMs[1],
     maxBackoffMs |-> IF options.maxBackoffMs = None
                      THEN DefaultMaxBackoffMs ELSE options.maxBackoffMs[1],
     retryableErrors |-> IF options.retryableErrors = None
                         THEN DefaultRetryableErrors ELSE options.retryableErrors[1]]

isRetryable(error, retryableErrors) ==
    IF error.isError
    THEN LET errorMessage == toLowerCase(error.message)
         IN  \E k \in 1..Len(retryableErrors) :
                 includes(errorMessage, toLowerCase(retryableErrors[k]))
    ELSE FALSE

\* the delay without its ceiling
backoffDelayUncapped(n) == config.backoffMs * 2^(n - 1)

\* the delay computed before a retry
backoffDelay(n) == Min(config.backoffMs * 2^(n - 1), config.maxBackoffMs)

Event(ev, n, delay) == [ev |-> ev, attempt |-> n, delay |-> delay]

Pending == [kind |-> "pending", value |-> None, error |-> None]
Resolved(v) == [kind |-> "resolved", value |-> Some(v), error |-> None]
Rejected(e) == [kind |-> "rejected", value |-> None, error |-> Some(e)]

OptionsSet ==
    [maxAttempts : {None} \cup {Some(n) : n \in 0..MaxAttemptsOpt},
     backoffMs : {None} \cup {Some(n) : n \in 0..MaxBackoffOpt},
     maxBackoffMs : {None} \cup {Some(n) : n \in 0..MaxCapOpt},
     retryableErrors : {None, Some(CustomRetryableErrors)}]

RetryInit ==
    /\ options \in OptionsSet
    /\ attempt = 0
    /\ rpc = "init"
    /\ calls = 0
    /\ lastError = None
    /\ outcome = Pending
    /\ thrown = <<>>
    /\ log = <<>>

\* the head of the for loop with attempt < maxAttempts as its condition
LoopHeadStrict(n, err, events) ==
    /\ attempt' = n
    /\ lastError' = err
    /\ IF n < config.maxAttempts
       THEN /\ rpc' = "calling"
            /\ calls' = calls + 1
            /\ outcome' = outcome
            /\ log' = events \o <<Event("invoke", n, 0)>>
       ELSE /\ rpc' = "done"
            /\ calls' = calls
            /\ outcome' = Rejected(IF err # None THEN err[1]
                                   ELSE PlainError(0, TRUE, MsgUnknown))
            /\ log' = events \o <<Event("exit", n, 0)>>

\* the head of the for loop with the loop variable at n: either operation() is
\* invoked, or the loop is left and the statement after it throws
LoopHead(n, err, events) ==
    /\ attempt' = n
    /\ lastError' = err
    /\ IF n <= config.maxAttempts
       THEN /\ rpc' = "calling"
            /\ calls' = calls + 1
            /\ outcome' = outcome
            /\ log' = events \o <<Event("invoke", n, 0)>>
       ELSE /\ rpc' = "done"
            /\ calls' = calls
            /\ outcome' = Rejected(IF err # None THEN err[1]
                                   ELSE PlainError(0, TRUE, MsgUnknown))
            /\ log' = events \o <<Event("exit", n, 0)>>

\* withRetry is called: attempt = 1 and the first pass of the loop starts
Start ==
    /\ rpc = "init"
    /\ LoopHead(1, None, log)
    /\ UNCHANGED <<options, thrown, besidesRetry>>

\* the result is stored but the loop goes on instead of returning
OperationResolvesThenRetries ==
    /\ rpc = "calling"
    /\ \E v \in ResultValues :
         /\ outcome' = Resolved([id |-> calls, value |-> v])
         /\ log' = log \o <<Event("resolve", attempt, 0)>>
    /\ rpc' = IF attempt < config.maxAttempts THEN "sleeping" ELSE "done"
    /\ UNCHANGED <<options, attempt, calls, lastError, thrown, besidesRetry>>

\* the invocation in flight resolves: withRetry returns its value
OperationResolves ==
    /\ rpc = "calling"
    /\ \E v \in ResultValues :
         /\ outcome' = Resolved([id |-> calls, value |-> v])
         /\ log' = log \o <<Event("resolve", attempt, 0)>>
    /\ rpc' = "done"
    /\ UNCHANGED <<options, attempt, calls, lastError, thrown, besidesRetry>>

\* a catch block that warns before it tests for the last attempt
OperationRejectsWarnsFirst ==
    /\ rpc = "calling"
    /\ \E t \in ThrownKinds :
         LET error == PlainError(calls, t.isError, t.message)
             asError == IF error.isError THEN error
                        ELSE PlainError(0, TRUE, error.message)
             delay == backoffDelay(attempt)
         IN  /\ thrown' = Append(thrown, error)
             /\ lastError' = Some(asError)
             /\ IF attempt = config.maxAttempts
                THEN /\ outcome' = Rejected(RetryExhaustedError(asError, attempt))
                     /\ rpc' = "done"
                     /\ log' = log \o <<Event("warning", attempt, delay),
                                        Event("reject", attempt, 0)>>
                ELSE IF ~isRetryable(error, config.retryableErrors)
                THEN /\ outcome' = Rejected(error)
                     /\ rpc' = "done"
                     /\ log' = log \o <<Event("reject", attempt, 0)>>
                ELSE /\ outcome' = outcome
                     /\ rpc' = "sleeping"
                     /\ log' = log \o <<Event("fail", attempt, 0),
                                        Event("warning", attempt, delay),
                                        Event("sleep", attempt, delay)>>
    /\ UNCHANGED <<options, attempt, calls, besidesRetry>>

\* the invocation in flight throws: the catch block, up to its throw or its sleep
OperationRejects ==
    /\ rpc = "calling"
    /\ \E t \in ThrownKinds :
         LET error == PlainError(calls, t.isError, t.message)
             asError == IF error.isError THEN error
                        ELSE PlainError(0, TRUE, error.message)
             delay == backoffDelay(attempt)
         IN  /\ thrown' = Append(thrown, error)
             /\ lastError' = Some(asError)
             /\ IF attempt = config.maxAttempts
                THEN /\ outcome' = Rejected(RetryExhaustedError(asError, attempt))
                     /\ rpc' = "done"
                     /\ log' = log \o <<Event("reject", attempt, 0)>>
                ELSE IF ~isRetryable(error, config.retryableErrors)
                THEN /\ outcome' = Rejected(error)
                     /\ rpc' = "done"
                     /\ log' = log \o <<Event("reject", attempt, 0)>>
                ELSE /\ outcome' = outcome
                     /\ rpc' = "sleeping"
                     /\ log' = log \o <<Event("fail", attempt, 0),
                                        Event("warning", attempt, delay),
                                        Event("sleep", attempt, delay)>>
    /\ UNCHANGED <<options, attempt, calls, besidesRetry>>

\* the timer of sleep(delay) fires: attempt++ and the next pass of the loop
SleepElapses ==
    /\ rpc = "sleeping"
    /\ LoopHead(attempt + 1, lastError, log \o <<Event("wake", attempt, 0)>>)
    /\ UNCHANGED <<options, thrown, besidesRetry>>

RetryNext ==
    \/ Start
    \/ OperationResolves
    \/ OperationRejects
    \/ SleepElapses

(***************************************************************************)
(* mapLineToDiff                                                           *)
(***************************************************************************)
MaxPatchBody == 4        \* most lines of a patch after its first hunk header
MaxTarget == 6           \* largest target line asked for

HunkA == <<"@", "@", " ", "-", "1", ",", "3", " ", "+", "1", ",", "5", " ", "@", "@">>
HunkB == <<"@", "@", " ", "-", "7", " ", "+", "3", " ", "@", "@">>
CtxLine1 == <<" ", "l", "i", "n", "e", "1">>
AddLineA == <<"+", "l", "i", "n", "e", "A">>
AddLineB == <<"+", "l", "i", "n", "e", "B">>
CtxLine2 == <<" ", "l", "i", "n", "e", "2">>
DelLineX == <<"-", "x">>
\* an added line of a file whose text is itself diff output
AddHunkText == <<"+", "@", "@", " ", "-", "7", " ", "+", "1", " ", "@", "@">>

\* the lines a patch is made of; a patch of the pull request API starts with
\* the header of its first hunk
BodyLines == {HunkB, CtxLine1, AddLineA, AddLineB, CtxLine2, DelLineX, AddHunkText}

RECURSIVE SeqsUpTo(_, _)
SeqsUpTo(S, n) ==
    IF n = 0 THEN {<<>>}
    ELSE LET shorter == SeqsUpTo(S, n - 1)
         IN  shorter \cup {Append(q, x) : q \in {r \in shorter : Len(r) = n - 1}, x \in S}

Patches == {<<HunkA>> \o body : body \in SeqsUpTo(BodyLines, MaxPatchBody)}

\* the index just after the longest run of digits of s that starts at k: \d+
RECURSIVE DigitRunEnd(_, _)
DigitRunEnd(s, k) ==
    IF k <= Len(s) /\ IsDigit(s[k]) THEN DigitRunEnd(s, k + 1) ELSE k

\* the index just after an optional ",<digits>" of s at k: (?:,\d+)?
OptCountEnd(s, k) ==
    IF k + 1 <= Len(s) /\ s[k] = "," /\ IsDigit(s[k + 1])
    THEN DigitRunEnd(s, k + 1)
    ELSE k

\* /@@ -\d+(?:,\d+)? \+(\d+)(?:,\d+)? @@/ matched with its first character at
\* index k of s: None, or the text of the capture group
HunkMatchAt(s, k) ==
    LET oldStart == k + 4
        oldEnd == DigitRunEnd(s, oldStart)
        plus == OptCountEnd(s, oldEnd)
        newStart == plus + 2
        newEnd == DigitRunEnd(s, newStart)
        close == OptCountEnd(s, newEnd)
    IN  IF /\ MatchesAt(s, <<"@", "@", " ", "-">>, k)
           /\ oldEnd > oldStart
           /\ MatchesAt(s, <<" ", "+">>, plus)
           /\ newEnd > newStart
           /\ MatchesAt(s, <<" ", "@", "@">>, close)
        THEN Some(SubSeq(s, newStart, newEnd - 1))
        ELSE None

\* line.match(/@@ -\d+(?:,\d+)? \+(\d+)(?:,\d+)? @@/): the leftmost match
\* anywhere in the line; None when there is none, else hunkMatch[1]
hunkMatch(line) ==
    IF \E k \in 1..Len(line) : HunkMatchAt(line, k) # None
    THEN HunkMatchAt(line, CHOOSE k \in 1..Len(line) :
                               /\ HunkMatchAt(line, k) # None
                               /\ \A j \in 1..(k - 1) : HunkMatchAt(line, j) = None)
    ELSE None

\* the for loop of mapLineToDiff from index i (0-based, as in the code)
RECURSIVE MapScan(_, _, _, _, _)
MapScan(target, lines, i, currentLine, inHunk) ==
    IF i >= Len(lines) THEN None
    ELSE LET line == lines[i + 1]
             hm == hunkMatch(line)
         IN  IF hm # None
             THEN MapScan(target, lines, i + 1, parseInt(hm[1]) - 1, TRUE)
             ELSE IF ~inHunk
             THEN MapScan(target, lines, i + 1, currentLine, inHunk)
             ELSE IF startsWith(line, <<"+">>)
             THEN IF currentLine + 1 = target
                  THEN Some(i + 1)
                  ELSE MapScan(target, lines, i + 1, currentLine + 1, inHunk)
             ELSE IF ~startsWith(line, <<"-">>)
             THEN MapScan(target, lines, i + 1, currentLine + 1, inHunk)
             ELSE MapScan(target, lines, i + 1, currentLine, inHunk)

\* the scan with context lines handled wrongly: in mode "skip" they do not
\* advance currentLine, in mode "match" they are matched like added lines
RECURSIVE MapScanContext(_, _, _, _, _, _)
MapScanContext(mode, target, lines, i, currentLine, inHunk) ==
    IF i >= Len(lines) THEN None
    ELSE LET line == lines[i + 1]
             hm == hunkMatch(line)
         IN  IF hm # None
             THEN MapScanContext(mode, target, lines, i + 1, parseInt(hm[1]) - 1, TRUE)
             ELSE IF ~inHunk
             THEN MapScanContext(mode, target, lines, i + 1, currentLine, inHunk)
             ELSE IF startsWith(line, <<"+">>)
                     \/ (mode = "match" /\ ~startsWith(line, <<"-">>))
             THEN IF currentLine + 1 = target
                  THEN Some(i + 1)
                  ELSE MapScanContext(mode, target, lines, i + 1, currentLine + 1, inHunk)
             ELSE IF ~startsWith(line, <<"-">>) /\ mode # "skip"
             THEN MapScanContext(mode, target, lines, i + 1, currentLine + 1, inHunk)
             ELSE MapScanContext(mode, target, lines, i + 1, currentLine, inHunk)

mapLineToDiffSkipContext(target, lines) ==
    MapScanContext("skip", target, lines, 0, 0, FALSE)

mapLineToDiffMatchContext(target, lines) ==
    MapScanContext("match", target, lines, 0, 0, FALSE)

\* inHunk kept from one call to the next instead of starting at false
mapLineToDiffKeepsHunk(target, lines) ==
    MapScan(target, lines, 0, 0, lineCalls # <<>>)

mapLineToDiff(target, lines) == MapScan(target, lines, 0, 0, FALSE)

DiffInit ==
    /\ patchLines \in Patches
    /\ targetLine \in 0..MaxTarget
    /\ mapResult = None
    /\ dpc = "input"

\* createReviewComments maps the line of an issue
CallMapLineToDiff ==
    /\ dpc = "input"
    /\ mapResult' = mapLineToDiff(targetLine, patchLines)
    /\ dpc' = "mapped"
    /\ UNCHANGED <<patchLines, targetLine, besidesDiff>>

DiffNext ==
    \/ CallMapLineToDiff

(***************************************************************************)
(* isValidSuggestion                                                       *)
(***************************************************************************)
MaxSugTokens == 3        \* most tokens a suggestion is made of
MaxOrigTokens == 2       \* most tokens an original line is made of

\* the pieces the texts of the model are put together from
SugTokens ==
    {<<" ">>, <<":">>, <<"k">>, <<"v">>, <<"\n">>, <<"\r">>,
     <<"S", "h", "o", "u", "l", "d">>}
OrigTokens == {<<" ">>, <<":">>, <<"k">>, <<"v">>}

\* the text spelled by a sequence of tokens
RECURSIVE Flatten(_)
Flatten(toks) == IF toks = <<>> THEN <<>> ELSE Head(toks) \o Flatten(Tail(toks))

\* suggestions that carry one advisory phrase each, in mixed letter case and
\* inside other text
AdvisorySuggestions ==
    { <<"u", "n", "C", "O", "N", "S", "I", "D", "E", "R", "e", "d">>,
      <<"k", ":", " ", "S", "h", "o", "u", "l", "d", " ", "v">>,
      <<"u", "n", "c", "O", "u", "L", "d", "e", "d">>,
      <<"k", ":", " ", "W", "O", "U", "L", "D", " ", "v">>,
      <<"u", "n", "M", "i", "g", "h", "t", "e", "d">>,
      <<"k", ":", " ", "e", "N", "s", "U", "r", "E", " ", "v">>,
      <<"u", "n", "V", "E", "R", "I", "F", "Y", "e", "d">>,
      <<"k", ":", " ", "C", "h", "e", "c", "k", " ", "v">>,
      <<"u", "n", "p", "I", "n", " ", "t", "O", "e", "d">>,
      <<"k", ":", " ", "E", ".", "G", ".", ",", " ", "v">>,
      <<"u", "n", "F", "o", "r", " ", "e", "x", "a", "m", "p", "l", "e", "e", "d">>,
      <<"k", ":", " ", "y", "O", "u", " ", "c", "A", "n", " ", "v">>,
      <<"u", "n", "I", "T", " ", "I", "S", "e", "d">>,
      <<"k", ":", " ", "T", "h", "i", "s", " ", "i", "s", " ", "v">> }

\* texts of a workflow file under review
SugYouShould ==
    <<"Y", "o", "u", " ", "s", "h", "o", "u", "l", "d", " ", "a", "d", "d", " ",
      "a", " ", "c", "a", "c", "h", "e", " ", "h", "e", "r", "e">>
OrigCacheNpm ==
    <<"c", "a", "c", "h", "e", ":", " ", "n", "p", "m">>
SugTimeout10 ==
    <<"t", "i", "m", "e", "o", "u", "t", "-", "m", "i", "n", "u", "t", "e", "s",
      ":", " ", "1", "0">>
OrigTimeout5 ==
    <<"t", "i", "m", "e", "o", "u", "t", "-", "m", "i", "n", "u", "t", "e", "s",
      ":", " ", "5">>
SugRunsOn ==
    <<"r", "u", "n", "s", "-", "o", "n", ":", " ", "u", "b", "u", "n", "t", "u",
      "-", "l", "a", "t", "e", "s", "t">>

Suggestions ==
    {Flatten(t) : t \in SeqsUpTo(SugTokens, MaxSugTokens)}
        \cup AdvisorySuggestions \cup {SugYouShould, SugTimeout10, SugRunsOn}
OriginalLines ==
    {None} \cup {Some(Flatten(t)) : t \in SeqsUpTo(OrigTokens, MaxOrigTokens)}
           \cup {Some(OrigCacheNpm), Some(OrigTimeout5)}

adviceIndicators ==
    << <<"c", "o", "n", "s", "i", "d", "e", "r">>,
       <<"s", "h", "o", "u", "l", "d">>,
       <<"c", "o", "u", "l", "d">>,
       <<"w", "o", "u", "l", "d">>,
       <<"m", "i", "g", "h", "t">>,
       <<"e", "n", "s", "u", "r", "e">>,
       <<"v", "e", "r", "i", "f", "y">>,
       <<"c", "h", "e", "c", "k">>,
       <<"p", "i", "n", " ", "t", "o">>,
       <<"e", ".", "g", ".", ",">>,
       <<"f", "o", "r", " ", "e", "x", "a", "m", "p", "l", "e">>,
       <<"y", "o", "u", " ", "c", "a", "n">>,
       <<"i", "t", " ", "i", "s">>,
       <<"t", "h", "i", "s", " ", "i", "s">> >>

\* a comparison of whole texts in place of keys
splitColonNone(s) == s

\* s.split(':')[0]: the text before the first ':' (all of s when it has none)
splitColonFirst(s) ==
    IF \E k \in 1..Len(s) : s[k] = ":"
    THEN SubSeq(s, 1, (CHOOSE k \in 1..Len(s) :
                           /\ s[k] = ":"
                           /\ \A j \in 1..(k - 1) : s[j] # ":") - 1)
    ELSE s

\* !originalLine: null and the empty string are both falsy
originalLineFalsy(orig) == orig = None \/ Len(orig[1]) = 0

\* isValidSuggestion without the test of an unknown original line
isValidSuggestionNullAsEmpty(sug, orig) ==
    IF Len(sug) = 0 \/ Len(trim(sug)) = 0 THEN FALSE
    ELSE IF includes(sug, <<"\n">>) \/ includes(sug, <<"\r">>) THEN FALSE
    ELSE LET trimmedSuggestion == trim(sug)
             trimmedOriginal == IF orig = None THEN <<>> ELSE trim(orig[1])
             lowerSuggestion == toLowerCase(trimmedSuggestion)
             originalKey == trim(splitColonFirst(trimmedOriginal))
             suggestionKey == trim(splitColonFirst(trimmedSuggestion))
         IN  IF trimmedSuggestion = trimmedOriginal THEN FALSE
             ELSE IF \E k \in 1..Len(adviceIndicators) :
                         includes(lowerSuggestion, adviceIndicators[k])
             THEN FALSE
             ELSE IF /\ includes(trimmedOriginal, <<":">>)
                     /\ includes(trimmedSuggestion, <<":">>)
                     /\ originalKey # suggestionKey
             THEN FALSE
             ELSE TRUE

isValidSuggestion(sug, orig) ==
    IF Len(sug) = 0 \/ Len(trim(sug)) = 0 THEN FALSE
    ELSE IF includes(sug, <<"\n">>) \/ includes(sug, <<"\r">>) THEN FALSE
    ELSE IF originalLineFalsy(orig) THEN FALSE
    ELSE LET trimmedSuggestion == trim(sug)
             trimmedOriginal == trim(orig[1])
             lowerSuggestion == toLowerCase(trimmedSuggestion)
             originalKey == trim(splitColonFirst(trimmedOriginal))
             suggestionKey == trim(splitColonFirst(trimmedSuggestion))
         IN  IF trimmedSuggestion = trimmedOriginal THEN FALSE
             ELSE IF \E k \in 1..Len(adviceIndicators) :
                         includes(lowerSuggestion, adviceIndicators[k])
             THEN FALSE
             ELSE IF /\ includes(trimmedOriginal, <<":">>)
                     /\ includes(trimmedSuggestion, <<":">>)
                     /\ originalKey # suggestionKey
             THEN FALSE
             ELSE TRUE

SugInit ==
    /\ suggestion \in Suggestions
    /\ originalLine \in OriginalLines
    /\ validResult = FALSE
    /\ spc = "input"

\* createReviewComments validates the suggestion of an issue
CallIsValidSuggestion ==
    /\ spc = "input"
    /\ validResult' = isValidSuggestion(suggestion, originalLine)
    /\ spc' = "validated"
    /\ UNCHANGED <<suggestion, originalLine, besidesSug>>

SugNext ==
    \/ CallIsValidSuggestion

(***************************************************************************)
(* createReviewComments                                                    *)
(***************************************************************************)
MaxIssues == 2           \* most issues the analysis reports for one file

toUpperChar(c) ==
    IF \E k \in 1..26 : LowerChars[k] = c
    THEN UpperChars[CHOOSE k \in 1..26 : LowerChars[k] = c]
    ELSE c

\* String.prototype.toUpperCase
toUpperCase(s) == [k \in 1..Len(s) |-> toUpperChar(s[k])]

\* Array.prototype.filter(Boolean) on an array of strings: the empty string
\* is the only falsy string
filterBoolean(parts) == SelectSeq(parts, LAMBDA part : Len(part) > 0)

\* Array.prototype.join
RECURSIVE join(_, _)
join(parts, sep) ==
    IF parts = <<>> THEN <<>>
    ELSE IF Len(parts) = 1 THEN parts[1]
    ELSE parts[1] \o sep \o join(Tail(parts), sep)

\* the emoji of each case, as the UTF-16 code units of the string literal
getSeverityEmoji(severity) ==
    CASE severity = "critical" -> <<"U+D83D", "U+DD34">>
      [] severity = "warning" -> <<"U+D83D", "U+DFE1">>
      [] severity = "suggestion" -> <<"U+D83D", "U+DCA1">>
      [] severity = "info" -> <<"U+2139", "U+FE0F">>
      [] OTHER -> <<"U+D83D", "U+DCDD">>

\* lineNumber is 1-indexed in the patch
\* a content lookup that reads removed lines like context lines
getOriginalLineContentRemoved(lineNumber, lines) ==
    IF lineNumber < 1 \/ lineNumber > Len(lines) THEN None
    ELSE LET line == lines[lineNumber]
         IN  IF startsWith(line, <<"+">>) THEN Some(SubSeq(line, 2, Len(line)))
             ELSE IF ~startsWith(line, <<"@">>) THEN Some(line)
             ELSE None

getOriginalLineContent(lineNumber, lines) ==
    IF lineNumber < 1 \/ lineNumber > Len(lines) THEN None
    ELSE LET line == lines[lineNumber]
         IN  IF startsWith(line, <<"+">>) THEN Some(SubSeq(line, 2, Len(line)))
             ELSE IF ~startsWith(line, <<"-">>) /\ ~startsWith(line, <<"@">>)
             THEN Some(line)
             ELSE None

\* `**${issue.category.toUpperCase()}**`, or "" for an empty category
categoryLabel(category) ==
    IF Len(category) > 0
    THEN <<"*", "*">> \o toUpperCase(category) \o <<"*", "*">>
    ELSE <<>>

\* the grave accent, by its code unit
Tick == "U+0060"

\* `\n**Suggestion:**\n(3 ticks)suggestion\n${issue.suggestion}\n(3 ticks)`
suggestionBlock(text) ==
    <<"\n", "*", "*", "S", "u", "g", "g", "e", "s", "t", "i", "o", "n", ":",
      "*", "*", "\n", Tick, Tick, Tick, "s", "u", "g", "g", "e", "s", "t", "i",
      "o", "n", "\n">> \o text \o <<"\n", Tick, Tick, Tick>>

\* a suggestion that is taken over without validation
suggestionAcceptedUnchecked(issue, orig) ==
    /\ issue.suggestion # None
    /\ Len(issue.suggestion[1]) > 0

\* issue.suggestion && this.isValidSuggestion(issue.suggestion, originalLine)
suggestionAccepted(issue, orig) ==
    /\ issue.suggestion # None
    /\ Len(issue.suggestion[1]) > 0
    /\ isValidSuggestion(issue.suggestion[1], orig)

commentBody(issue, accepted) ==
    join(filterBoolean(<< getSeverityEmoji(issue.severity) \o <<" ">>
                              \o categoryLabel(issue.category),
                          <<>>,
                          issue.message,
                          IF accepted
                          THEN suggestionBlock(issue.suggestion[1])
                          ELSE <<>> >>),
         <<"\n">>)

\* one pass of the loop that leaves out an issue whose suggestion is rejected
commentsOfIssueDropRejected(filePath, issue, lines) ==
    LET lineNumber == mapLineToDiff(issue.line, lines)
    IN  IF lineNumber = None THEN <<>>
        ELSE LET orig == getOriginalLineContent(lineNumber[1], lines)
                 accepted == suggestionAccepted(issue, orig)
             IN  IF suggestionAcceptedUnchecked(issue, orig) /\ ~accepted
                 THEN <<>>
                 ELSE << [path |-> filePath, line |-> lineNumber[1],
                          body |-> commentBody(issue, accepted),
                          side |-> "RIGHT"] >>

\* one pass of the loop of createReviewComments: the comments it pushes
commentsOfIssue(filePath, issue, lines) ==
    LET lineNumber == mapLineToDiff(issue.line, lines)
    IN  IF lineNumber = None THEN <<>>
        ELSE LET orig == getOriginalLineContent(lineNumber[1], lines)
                 accepted == suggestionAccepted(issue, orig)
             IN  << [path |-> filePath, line |-> lineNumber[1],
                     body |-> commentBody(issue, accepted),
                     side |-> "RIGHT"] >>

RECURSIVE createReviewComments(_, _, _)
createReviewComments(filePath, issueList, lines) ==
    IF issueList = <<>> THEN <<>>
    ELSE commentsOfIssue(filePath, Head(issueList), lines)
             \o createReviewComments(filePath, Tail(issueList), lines)

\* the inputs of the model
FilePath == "ci.yml"
PatchYaml == <<HunkA, CtxLine1, <<"+">> \o OrigTimeout5, <<"+">>, CtxLine2>>
PatchHeaderText == <<HunkA, AddLineA, AddHunkText, AddLineB>>
ComPatches == {PatchYaml, PatchHeaderText}

CatSecurity == <<"s", "e", "c", "u", "r", "i", "t", "y">>
MsgText == <<"P", "i", "n", " ", "i", "t">>
Issue(line, severity, category, message, sug) ==
    [line |-> line, severity |-> severity, category |-> category,
     message |-> message, suggestion |-> sug]
MsgLine == <<"P", "i", "n">>
Issues ==
    {Issue(1, "critical", CatSecurity, MsgLine, None),
     Issue(3, "critical", CatSecurity, MsgLine, Some(SugTimeout10))}
      \cup {Issue(2, "critical", CatSecurity, MsgLine, sg) :
                sg \in {Some(<<>>), Some(SugTimeout10), Some(SugRunsOn)}}
      \cup {Issue(2, "warning", c, m, sg) :
                c \in {<<>>, CatSecurity}, m \in {<<>>, MsgText},
                sg \in {None, Some(SugTimeout10)}}
      \cup {Issue(3, sv, <<"b", "u", "g">>, MsgText, None) :
                sv \in {"suggestion", "info", "nitpick"}}

ComInit ==
    /\ issues \in SeqsUpTo(Issues, MaxIssues)
    /\ patch \in ComPatches
    /\ comments = <<>>
    /\ cpc = "input"

\* reviewFile turns the issues of a file into comments
CallCreateReviewComments ==
    /\ cpc = "input"
    /\ comments' = createReviewComments(FilePath, issues, patch)
    /\ cpc' = "created"
    /\ UNCHANGED <<issues, patch, besidesCom>>

ComNext ==
    \/ CallCreateReviewComments

(***************************************************************************)
(* GitHubClient: createReview, postReviewComments, postGeneralComment      *)
(***************************************************************************)
MaxBodyLength == 65000   \* body.length > 65000
BodySlack == 2           \* body lengths are taken this close to 0 and to the limit
LongLength == 70000      \* the length of a long text
MaxDelivered == 2        \* most comments handed to one delivery call

\* The texts of this component are strings: they are only measured
\* (body.length), cut (substring) and concatenated (+).
TruncationMarker == "\n\n... (truncated)"

\* a cut that also applies to a body of exactly the limit
truncateBodyFromLimit(body) ==
    IF Len(body) >= MaxBodyLength
    THEN SubSeq(body, 1, MaxBodyLength) \o TruncationMarker
    ELSE body

\* body.length > 65000 ? body.substring(0, 65000) + '\n\n... (truncated)' : body
truncateBody(body) ==
    IF Len(body) > MaxBodyLength
    THEN SubSeq(body, 1, MaxBodyLength) \o TruncationMarker
    ELSE body

\* how the withRetry call around a request ends: the remote accepts the
\* request, every one of the three attempts fails with a retryable error
\* (RetryExhaustedError), or an attempt fails with an error that is not retried
CallEnds == {"accepted", "exhausted", "refused"}

\* a request that carries text to the remote API, and how its call ended
Request(api, body, event, reqComments, callEnd) ==
    [api |-> api, body |-> body, event |-> event, comments |-> reqComments,
     ok |-> callEnd = "accepted", end |-> callEnd]

\* comments.map(c => ({path, line, body, side: c.side || 'RIGHT', ...}))
mapComments(commentList) ==
    [k \in 1..Len(commentList) |->
        [path |-> commentList[k].path, line |-> commentList[k].line,
         body |-> commentList[k].body, side |-> commentList[k].side]]

\* createReview; shaOk: getCommitSha resolves, callEnd: how withRetry ends
createReview(commentList, body, event, shaOk, callEnd) ==
    IF Len(commentList) = 0 THEN [requests |-> <<>>, result |-> "returned"]
    ELSE IF ~shaOk THEN [requests |-> <<>>, result |-> "threw"]
    ELSE [requests |-> << Request("pulls.createReview", Some(truncateBody(body)),
                                  Some(event), mapComments(commentList), callEnd) >>,
          result |-> IF callEnd = "accepted" THEN "returned" ELSE "threw"]

\* the 'Failed to post comment on path:line' warnings, in order
failedToPost(commentList, callEnds) ==
    SelectSeq([k \in 1..Len(commentList) |->
                  [path |-> commentList[k].path, line |-> commentList[k].line,
                   end |-> callEnds[k]]],
              LAMBDA e : e.end # "accepted")

\* the first comment that cannot be posted ends the method with its error
postReviewCommentsStops(commentList, shaOk, callEnds) ==
    IF Len(commentList) = 0
    THEN [requests |-> <<>>, result |-> "returned", warnings |-> <<>>]
    ELSE IF ~shaOk THEN [requests |-> <<>>, result |-> "threw", warnings |-> <<>>]
    ELSE LET failing == {k \in 1..Len(commentList) : callEnds[k] # "accepted"}
             last == IF failing = {} THEN Len(commentList)
                     ELSE CHOOSE k \in failing : \A j \in failing : k <= j
         IN  [requests |->
                  [k \in 1..last |->
                      Request("pulls.createReviewComment", None, None,
                              mapComments(<<commentList[k]>>), callEnds[k])],
              result |-> IF failing = {} THEN "returned" ELSE "threw",
              warnings |-> <<>>]

\* postReviewComments; callEnds[k]: how withRetry ends for the k-th comment.
\* A failure of one comment is caught and logged as a warning.
postReviewComments(commentList, shaOk, callEnds) ==
    IF Len(commentList) = 0
    THEN [requests |-> <<>>, result |-> "returned", warnings |-> <<>>]
    ELSE IF ~shaOk THEN [requests |-> <<>>, result |-> "threw", warnings |-> <<>>]
    ELSE [requests |->
              [k \in 1..Len(commentList) |->
                  Request("pulls.createReviewComment", None, None,
                          mapComments(<<commentList[k]>>), callEnds[k])],
          result |-> "returned",
          warnings |-> failedToPost(commentList, callEnds)]

\* postGeneralComment; callEnd: how withRetry ends
postGeneralComment(body, callEnd) ==
    [requests |-> << Request("issues.createComment", Some(truncateBody(body)),
                             None, <<>>, callEnd) >>,
     result |-> IF callEnd = "accepted" THEN "returned" ELSE "threw"]

\* the inputs of the model
RECURSIVE Repeat(_, _)
Repeat(text, n) ==
    IF n = 0 THEN ""
    ELSE IF n % 2 = 1 THEN text \o Repeat(text, n - 1)
    ELSE LET half == Repeat(text, n \div 2) IN half \o half
TextOfLength(n) == SubSeq(Repeat("abc", (n \div 3) + 1), 1, n)
BodyLengths ==
    (0..BodySlack)
        \cup ((MaxBodyLength - BodySlack)..(MaxBodyLength + BodySlack))
        \cup {LongLength}
Bodies == {TextOfLength(n) : n \in BodyLengths}
DeliveredComments ==
    {[path |-> FilePath, line |-> 3, body |-> b, side |-> "RIGHT"] :
         b \in {"Pin it", TextOfLength(LongLength)}}

DelInit ==
    /\ dComments \in SeqsUpTo(DeliveredComments, MaxDelivered)
    /\ dBody \in Bodies
    /\ called = None
    /\ requests = <<>>
    /\ dResult = None

CallCreateReview ==
    /\ called = None
    /\ \E event \in {"COMMENT", "APPROVE"}, shaOk \in BOOLEAN, callEnd \in CallEnds :
          LET r == createReview(dComments, dBody, event, shaOk, callEnd)
          IN  /\ requests' = r.requests
              /\ dResult' = Some(r.result)
    /\ called' = Some("createReview")
    /\ UNCHANGED <<dComments, dBody, besidesDel>>

CallPostReviewComments ==
    /\ called = None
    /\ \E shaOk \in BOOLEAN, callEnds \in [1..Len(dComments) -> CallEnds] :
          LET r == postReviewComments(dComments, shaOk, callEnds)
          IN  /\ requests' = r.requests
              /\ dResult' = Some(r.result)
    /\ called' = Some("postReviewComments")
    /\ UNCHANGED <<dComments, dBody, besidesDel>>

CallPostGeneralComment ==
    /\ called = None
    /\ \E callEnd \in CallEnds :
          LET r == postGeneralComment(dBody, callEnd)
          IN  /\ requests' = r.requests
              /\ dResult' = Some(r.result)
    /\ called' = Some("postGeneralComment")
    /\ UNCHANGED <<dComments, dBody, besidesDel>>

DelNext ==
    \/ CallCreateReview
    \/ CallPostReviewComments
    \/ CallPostGeneralComment

(***************************************************************************)
(* runReview                                                               *)
(***************************************************************************)
MaxFiles == 2            \* most changed files of the pull request
MaxFilesOpt == 2         \* largest config.maxFiles

\* The review body and the approval body are strings, as the texts of the
\* delivery methods; an emoji of a template is written by its code point.

\* Array.prototype.join on an array of strings
RECURSIVE joinText(_, _)
joinText(parts, sep) ==
    IF parts = <<>> THEN ""
    ELSE IF Len(parts) = 1 THEN parts[1]
    ELSE parts[1] \o sep \o joinText(Tail(parts), sep)

\* array.reduce((sum, r) => sum + r[field], 0)
RECURSIVE sumOf(_, _)
sumOf(results, field) ==
    IF results = <<>> THEN 0
    ELSE Head(results)[field] + sumOf(Tail(results), field)

countSeverity(reviews, severities) ==
    Len(SelectSeq(reviews, LAMBDA r : r.severity \in severities))

\* a reviewFile that leaves the "info" issues out of its counts
reviewFileInfoUncounted(file, answer) ==
    [comments |-> createReviewComments(file.filename, answer.reviews, file.patch),
     summary |-> answer.summary,
     criticalCount |-> countSeverity(answer.reviews, {"critical"}),
     warningCount |-> countSeverity(answer.reviews, {"warning"}),
     suggestionCount |-> countSeverity(answer.reviews, {"suggestion"})]

\* reviewFile, for the answer of the analysis call
reviewFile(file, answer) ==
    [comments |-> createReviewComments(file.filename, answer.reviews, file.patch),
     summary |-> answer.summary,
     criticalCount |-> countSeverity(answer.reviews, {"critical"}),
     warningCount |-> countSeverity(answer.reviews, {"warning"}),
     suggestionCount |-> countSeverity(answer.reviews, {"suggestion", "info"})]

fileResultOf(file, result) ==
    [filePath |-> file.filename,
     summary |-> result.summary,
     issueCount |-> Len(result.comments),
     criticalCount |-> result.criticalCount,
     warningCount |-> result.warningCount,
     suggestionCount |-> result.suggestionCount]

\* files.slice(0, maxFiles) whatever maxFiles is: a negative end counts from
\* the end of the list, 0 and NaN give the empty list
limitFilesAlwaysSlices(fileList, maxFiles) ==
    IF maxFiles = NaN \/ maxFiles[1] = 0 THEN <<>>
    ELSE IF maxFiles[1] < 0
    THEN SubSeq(fileList, 1, Len(fileList) + maxFiles[1])
    ELSE SubSeq(fileList, 1, Min(maxFiles[1], Len(fileList)))

\* this.config.maxFiles > 0 ? files.slice(0, this.config.maxFiles) : files
limitFiles(fileList, maxFiles) ==
    IF maxFiles # NaN /\ maxFiles[1] > 0
    THEN SubSeq(fileList, 1, Min(maxFiles[1], Len(fileList)))
    ELSE fileList

fileLine(r) ==
    "- " \o r.filePath
         \o (IF r.issueCount > 0
             THEN " (" \o ToString(r.issueCount) \o " comment"
                       \o (IF r.issueCount > 1 THEN "s" ELSE "") \o ")"
             ELSE "")

formatReviewBody(summary, results, criticalIssues, warningTotal, suggestionTotal) ==
    LET stats == SelectSeq(
                     << IF criticalIssues > 0
                        THEN "<U+1F534> " \o ToString(criticalIssues) \o " critical"
                        ELSE "",
                        IF warningTotal > 0
                        THEN "<U+1F7E1> " \o ToString(warningTotal) \o " warnings"
                        ELSE "",
                        IF suggestionTotal > 0
                        THEN "<U+1F4A1> " \o ToString(suggestionTotal) \o " suggestions"
                        ELSE "" >>,
                     LAMBDA part : part # "")
    IN  "## Open Review\n\n" \o summary \o "\n\n### Summary\n"
            \o (IF Len(stats) > 0 THEN joinText(stats, " | ")
                ELSE "<U+2705> No issues found")
            \o "\n\n### Files Reviewed\n"
            \o joinText([k \in 1..Len(results) |-> fileLine(results[k])], "\n")
            \o "\n\n---\n*This review was generated by AI. Please review the suggestions carefully before applying them.*"

approvalBodyOf(summary) ==
    "## <U+2705> AI Code Review Complete\n\n" \o summary
        \o "\n\n**No issues found!** Great job! <U+1F389>"

\* the body runReview hands to the delivery methods
deliveryBody ==
    IF Len(allComments) > 0
    THEN formatReviewBody(overallSummary[1], fileResults,
                          sumOf(fileResults, "criticalCount"),
                          sumOf(fileResults, "warningCount"),
                          sumOf(fileResults, "suggestionCount"))
    ELSE approvalBodyOf(overallSummary[1])

\* a summary that counts every file the loop has come to
reviewSummaryCountsProcessed ==
    [totalFiles |-> Len(changedFiles),
     filesReviewed |-> Len(fileLog),
     totalComments |-> Len(allComments),
     criticalIssues |-> sumOf(fileResults, "criticalCount"),
     warnings |-> sumOf(fileResults, "warningCount"),
     suggestions |-> sumOf(fileResults, "suggestionCount"),
     summary |-> overallSummary[1]]

\* the ReviewSummary runReview returns
reviewSummary ==
    [totalFiles |-> Len(changedFiles),
     filesReviewed |-> Len(fileResults),
     totalComments |-> Len(allComments),
     criticalIssues |-> sumOf(fileResults, "criticalCount"),
     warnings |-> sumOf(fileResults, "warningCount"),
     suggestions |-> sumOf(fileResults, "suggestionCount"),
     summary |-> overallSummary[1]]

RunReturned(summary) == [kind |-> "returned", summary |-> Some(summary), cause |-> None]
RunRejected(cause) == [kind |-> "rejected", summary |-> None, cause |-> Some(cause)]
filesToReview == limitFiles(changedFiles, runConfig.maxFiles)

\* the inputs of the model
FileNames == <<"a.yml", "b.yml", "c.yml">>
FileKinds ==
    {[status |-> "modified", patch |-> PatchYaml],
     [status |-> "removed", patch |-> PatchYaml],
     [status |-> "added", patch |-> <<>>]}
FileLists ==
    {[k \in 1..Len(kinds) |->
         [filename |-> FileNames[k], status |-> kinds[k].status,
          patch |-> kinds[k].patch]] : kinds \in SeqsUpTo(FileKinds, MaxFiles)}
Answers ==
    {[reviews |-> r, summary |-> "ok"] :
         r \in { <<>>,
                 <<Issue(1, "critical", CatSecurity, MsgLine, None)>>,
                 <<Issue(2, "critical", CatSecurity, MsgLine, Some(SugRunsOn))>>,
                 <<Issue(2, "warning", <<>>, MsgText, Some(SugTimeout10)),
                   Issue(3, "info", <<"b", "u", "g">>, MsgText, None)>> }}
SummaryText == "Looks good"

RunInit ==
    /\ runConfig \in [postAsReview : BOOLEAN,
                      maxFiles : {NaN} \cup {Number(n) : n \in -1..MaxFilesOpt}]
    /\ changedFiles \in FileLists
    /\ fileIndex = 1
    /\ allComments = <<>>
    /\ fileResults = <<>>
    /\ fileLog = <<>>
    /\ inFlight = {}
    /\ overallSummary = None
    /\ posted = <<>>
    /\ deliveryLog = <<>>
    /\ runOutcome = None
    /\ runPc = "details"

\* await this.github.getPRDetails()
GetPRDetails ==
    /\ actPc = "review"
    /\ runPc = "details"
    /\ \E ok \in BOOLEAN :
          IF ok
          THEN runPc' = "files" /\ UNCHANGED runOutcome
          ELSE runPc' = "done" /\ runOutcome' = Some(RunRejected("getPRDetails"))
    /\ UNCHANGED <<runConfig, changedFiles, fileIndex, allComments, fileResults,
                   fileLog, inFlight, overallSummary, posted, deliveryLog, besidesRun>>

\* await this.github.getChangedFiles(...), the empty-list return and the limit
GetChangedFiles ==
    /\ runPc = "files"
    /\ \E ok \in BOOLEAN :
          IF ~ok
          THEN runPc' = "done" /\ runOutcome' = Some(RunRejected("getChangedFiles"))
          ELSE IF Len(changedFiles) = 0
          THEN /\ runPc' = "done"
               /\ runOutcome' = Some(RunReturned(
                      [totalFiles |-> 0, filesReviewed |-> 0, totalComments |-> 0,
                       criticalIssues |-> 0, warnings |-> 0, suggestions |-> 0,
                       summary |-> "No files to review"]))
          ELSE runPc' = "loop" /\ UNCHANGED runOutcome
    /\ UNCHANGED <<runConfig, changedFiles, fileIndex, allComments, fileResults,
                   fileLog, inFlight, overallSummary, posted, deliveryLog, besidesRun>>

\* file.status === "removed" || !file.patch
isSkipped(file) == file.status = "removed" \/ Len(file.patch) = 0

\* a removed file or a file without patch is skipped
SkipFile ==
    /\ runPc = "loop"
    /\ fileIndex <= Len(filesToReview)
    /\ LET file == filesToReview[fileIndex]
       IN  /\ isSkipped(file)
           /\ fileLog' = Append(fileLog, [filename |-> file.filename,
                                          outcome |-> "skipped",
                                          reviews |-> <<>>,
                                          comments |-> <<>>])
    /\ fileIndex' = fileIndex + 1
    /\ UNCHANGED <<runConfig, changedFiles, allComments, fileResults, inFlight,
                   overallSummary, posted, deliveryLog, runOutcome, runPc, besidesRun>>

\* the analysis of the next file is started while one is still in flight
StartReviewFileAhead ==
    /\ runPc \in {"loop", "reviewing"}
    /\ fileIndex + Cardinality(inFlight) <= Len(filesToReview)
    /\ LET file == filesToReview[fileIndex + Cardinality(inFlight)]
       IN  /\ ~isSkipped(file)
           /\ inFlight' = inFlight \cup {file.filename}
    /\ runPc' = "reviewing"
    /\ UNCHANGED <<runConfig, changedFiles, fileIndex, allComments, fileResults,
                   fileLog, overallSummary, posted, deliveryLog, runOutcome, besidesRun>>

\* this.reviewFile(...) is called: the analysis call of the file is in flight
StartReviewFile ==
    /\ runPc = "loop"
    /\ fileIndex <= Len(filesToReview)
    /\ LET file == filesToReview[fileIndex]
       IN  /\ ~isSkipped(file)
           /\ inFlight' = inFlight \cup {file.filename}
    /\ runPc' = "reviewing"
    /\ UNCHANGED <<runConfig, changedFiles, fileIndex, allComments, fileResults,
                   fileLog, overallSummary, posted, deliveryLog, runOutcome, besidesRun>>

\* a failing file ends the run
ReviewFileFailsAborts ==
    /\ runPc = "reviewing"
    /\ LET file == filesToReview[fileIndex]
       IN  /\ inFlight' = inFlight \ {file.filename}
           /\ fileLog' = Append(fileLog, [filename |-> file.filename,
                                          outcome |-> "failed",
                                          reviews |-> <<>>,
                                          comments |-> <<>>])
    /\ runPc' = "done"
    /\ runOutcome' = Some(RunRejected("reviewFile"))
    /\ UNCHANGED <<runConfig, changedFiles, fileIndex, allComments, fileResults,
                   overallSummary, posted, deliveryLog, besidesRun>>

\* await this.reviewFile(...) resolves: its comments and its result are kept
ReviewFileSucceeds ==
    /\ runPc = "reviewing"
    /\ LET file == filesToReview[fileIndex]
       IN  /\ inFlight' = inFlight \ {file.filename}
           /\ \E answer \in Answers :
                 LET result == reviewFile(file, answer)
                 IN  /\ allComments' = allComments \o result.comments
                     /\ fileResults' = Append(fileResults, fileResultOf(file, result))
                     /\ fileLog' = Append(fileLog, [filename |-> file.filename,
                                                    outcome |-> "reviewed",
                                                    reviews |-> answer.reviews,
                                                    comments |-> result.comments])
    /\ fileIndex' = fileIndex + 1
    /\ runPc' = "loop"
    /\ UNCHANGED <<runConfig, changedFiles, overallSummary, posted, deliveryLog, runOutcome,
                   besidesRun>>

\* await this.reviewFile(...) rejects: the error is logged, the loop goes on
ReviewFileFails ==
    /\ runPc = "reviewing"
    /\ LET file == filesToReview[fileIndex]
       IN  /\ inFlight' = inFlight \ {file.filename}
           /\ fileLog' = Append(fileLog, [filename |-> file.filename,
                                          outcome |-> "failed",
                                          reviews |-> <<>>,
                                          comments |-> <<>>])
    /\ fileIndex' = fileIndex + 1
    /\ runPc' = "loop"
    /\ UNCHANGED <<runConfig, changedFiles, allComments, fileResults,
                   overallSummary, posted, deliveryLog, runOutcome, besidesRun>>

\* await this.llm.generateSummary(...), after the last file
GenerateSummary ==
    /\ runPc = "loop"
    /\ fileIndex > Len(filesToReview)
    /\ \E ok \in BOOLEAN :
          IF ok
          THEN /\ overallSummary' = Some(SummaryText)
               /\ runPc' = "deliver"
               /\ UNCHANGED runOutcome
          ELSE /\ runPc' = "done"
               /\ runOutcome' = Some(RunRejected("generateSummary"))
               /\ UNCHANGED overallSummary
    /\ UNCHANGED <<runConfig, changedFiles, fileIndex, allComments, fileResults,
                   fileLog, inFlight, posted, deliveryLog, besidesRun>>

\* a call of a delivery method: how it ended and the warnings it logged for
\* comments it could not post
DeliveryCall(method, result, warnings) ==
    [method |-> method, result |-> result, warnings |-> warnings]

\* postAsReview: await this.github.createReview(...), then the return
DeliverReview ==
    /\ runPc = "deliver"
    /\ runConfig.postAsReview
    /\ \E shaOk \in BOOLEAN, callEnd \in CallEnds :
          LET r == IF Len(allComments) > 0
                   THEN createReview(allComments, deliveryBody, "COMMENT",
                                     shaOk, callEnd)
                   ELSE createReview(<<>>, deliveryBody, "APPROVE", shaOk, callEnd)
          IN  /\ posted' = posted \o r.requests
              /\ deliveryLog' = Append(deliveryLog,
                                       DeliveryCall("createReview", r.result, <<>>))
              /\ runOutcome' = IF r.result = "returned"
                               THEN Some(RunReturned(reviewSummary))
                               ELSE Some(RunRejected("createReview"))
    /\ runPc' = "done"
    /\ UNCHANGED <<runConfig, changedFiles, fileIndex, allComments, fileResults,
                   fileLog, inFlight, overallSummary, besidesRun>>

\* not postAsReview, with comments: await this.github.postReviewComments(...)
DeliverComments ==
    /\ runPc = "deliver"
    /\ ~runConfig.postAsReview
    /\ Len(allComments) > 0
    /\ \E shaOk \in BOOLEAN, callEnds \in [1..Len(allComments) -> CallEnds] :
          LET r == postReviewComments(allComments, shaOk, callEnds)
          IN  /\ posted' = posted \o r.requests
              /\ deliveryLog' = Append(deliveryLog,
                                       DeliveryCall("postReviewComments", r.result,
                                                    r.warnings))
              /\ IF r.result = "returned"
                 THEN runPc' = "general" /\ UNCHANGED runOutcome
                 ELSE /\ runPc' = "done"
                      /\ runOutcome' = Some(RunRejected("postReviewComments"))
    /\ UNCHANGED <<runConfig, changedFiles, fileIndex, allComments, fileResults,
                   fileLog, inFlight, overallSummary, besidesRun>>

\* the general comment is posted without waiting for the line comments
DeliverGeneralFirst ==
    /\ ~runConfig.postAsReview
    /\ runPc \in {"general", "deliver"}
    /\ \E callEnd \in CallEnds :
          LET r == postGeneralComment(deliveryBody, callEnd)
          IN  /\ posted' = posted \o r.requests
              /\ deliveryLog' = Append(deliveryLog,
                                       DeliveryCall("postGeneralComment", r.result, <<>>))
              /\ runOutcome' = IF r.result = "returned"
                               THEN Some(RunReturned(reviewSummary))
                               ELSE Some(RunRejected("postGeneralComment"))
    /\ runPc' = "done"
    /\ UNCHANGED <<runConfig, changedFiles, fileIndex, allComments, fileResults,
                   fileLog, inFlight, overallSummary, besidesRun>>

\* not postAsReview: await this.github.postGeneralComment(...), then the return
DeliverGeneral ==
    /\ ~runConfig.postAsReview
    /\ \/ runPc = "general"
       \/ runPc = "deliver" /\ Len(allComments) = 0
    /\ \E callEnd \in CallEnds :
          LET r == postGeneralComment(deliveryBody, callEnd)
          IN  /\ posted' = posted \o r.requests
              /\ deliveryLog' = Append(deliveryLog,
                                       DeliveryCall("postGeneralComment", r.result, <<>>))
              /\ runOutcome' = IF r.result = "returned"
                               THEN Some(RunReturned(reviewSummary))
                               ELSE Some(RunRejected("postGeneralComment"))
    /\ runPc' = "done"
    /\ UNCHANGED <<runConfig, changedFiles, fileIndex, allComments, fileResults,
                   fileLog, inFlight, overallSummary, besidesRun>>

RunNext ==
    \/ GetPRDetails
    \/ GetChangedFiles
    \/ SkipFile
    \/ StartReviewFile
    \/ ReviewFileSucceeds
    \/ ReviewFileFails
    \/ GenerateSummary
    \/ DeliverReview
    \/ DeliverComments
    \/ DeliverGeneral

(***************************************************************************)
(* Repeated calls of mapLineToDiff and getOriginalLineContent on one patch *)
(***************************************************************************)
MaxLineCalls == 3        \* most calls made on one patch

\* two hunks with a context line and a removed line; an added line whose text
\* holds a hunk-header pattern; lines before the first hunk header
LinePatches ==
    { <<HunkA, CtxLine1, AddLineA, DelLineX, AddLineB, HunkB, AddLineA>>,
      PatchHeaderText,
      <<AddLineA, CtxLine1, HunkA, AddLineB>> }

LineCall(fn, arg, lines, result) ==
    [fn |-> fn, arg |-> arg, lines |-> lines, result |-> result]

LineInit ==
    /\ blob \in LinePatches
    /\ lineCalls = <<>>

\* this.mapLineToDiff(issue.line, patchLines), for one more issue
CallMapLineToDiffAgain ==
    /\ Len(lineCalls) < MaxLineCalls
    /\ \E target \in 0..MaxTarget :
          lineCalls' = Append(lineCalls,
                              LineCall("mapLineToDiff", target, blob,
                                       mapLineToDiff(target, blob)))
    /\ UNCHANGED <<blob, besidesLine>>

\* this.getOriginalLineContent(lineNumber, patchLines)
CallGetOriginalLineContent ==
    /\ Len(lineCalls) < MaxLineCalls
    /\ \E position \in 0..(Len(blob) + 1) :
          lineCalls' = Append(lineCalls,
                              LineCall("getOriginalLineContent", position, blob,
                                       getOriginalLineContent(position, blob)))
    /\ UNCHANGED <<blob, besidesLine>>

LineNext ==
    \/ CallMapLineToDiffAgain
    \/ CallGetOriginalLineContent

(***************************************************************************)
(* loadConfig                                                              *)
(***************************************************************************)
\* the characters of a string literal
Chars(text) == [k \in 1..Len(text) |-> SubSeq(text, k, k)]

validModes == <<Chars("summary"), Chars("detailed"), Chars("security"),
                Chars("performance")>>

\* Array.prototype.includes
includesElement(list, x) == \E k \in 1..Len(list) : list[k] = x

\* ---- new URL(text): the scheme, and the host of a special scheme ----
IsSchemeStart(c) == toLowerChar(c) \in {LowerChars[k] : k \in 1..26}
IsSchemeChar(c) == IsSchemeStart(c) \/ IsDigit(c) \/ c \in {"+", "-", "."}
\* the index of the ":" that ends the scheme, 0 when the text has no scheme
schemeEnd(s) ==
    IF \E k \in 2..Len(s) :
           /\ s[k] = ":"
           /\ IsSchemeStart(s[1])
           /\ \A j \in 2..(k - 1) : IsSchemeChar(s[j])
    THEN CHOOSE k \in 2..Len(s) :
             /\ s[k] = ":"
             /\ \A j \in 1..(k - 1) : s[j] # ":"
    ELSE 0
SpecialSchemes == {Chars("http"), Chars("https"), Chars("ws"), Chars("wss"),
                   Chars("ftp")}
\* the text up to the first character of stops
RECURSIVE upTo(_, _)
upTo(s, stops) ==
    IF s = <<>> \/ Head(s) \in stops THEN <<>>
    ELSE <<Head(s)>> \o upTo(Tail(s), stops)
RECURSIVE skipAll(_, _)
skipAll(s, skipped) ==
    IF s # <<>> /\ Head(s) \in skipped THEN skipAll(Tail(s), skipped) ELSE s
\* the text after the last "@" (the credentials of the authority end there)
RECURSIVE afterLastAt(_)
afterLastAt(s) ==
    IF \E k \in 1..Len(s) : s[k] = "@"
    THEN afterLastAt(SubSeq(s, (CHOOSE k \in 1..Len(s) : s[k] = "@") + 1, Len(s)))
    ELSE s
ForbiddenHostChars == {" ", "<", ">", "^", "|", "%", "[", "]", "@", ":"}
\* host and port of an authority are well formed
hostAccepted(authority) ==
    LET hostPort == afterLastAt(authority)
        host == upTo(hostPort, {":"})
        port == SubSeq(hostPort, Len(host) + 2, Len(hostPort))
    IN  /\ host # <<>>
        /\ \A k \in 1..Len(host) : host[k] \notin ForbiddenHostChars
        /\ \A k \in 1..Len(port) : IsDigit(port[k])
        /\ Len(port) <= 5
        /\ parseInt(port) <= 65535
\* the URL object (its protocol), or None when the constructor throws
parseUrl(text) ==
    LET s == trim(text)
        k == schemeEnd(s)
    IN  IF k = 0 THEN None
        ELSE LET scheme == toLowerCase(SubSeq(s, 1, k - 1))
                 rest == skipAll(SubSeq(s, k + 1, Len(s)), {"/", "\\"})
             IN  IF scheme \in SpecialSchemes
                        /\ ~hostAccepted(upTo(rest, {"/", "\\", "?", "#"}))
                 THEN None
                 ELSE Some([protocol |-> scheme \o <<":">>])

\* a check of the URL that accepts every protocol
urlAcceptedAnyProtocol(text) == parseUrl(text) # None

\* the try block of the URL validation ends without an exception
urlAccepted(text) ==
    /\ parseUrl(text) # None
    /\ parseUrl(text)[1].protocol \in {Chars("https:"), Chars("http:")}

\* String.prototype.split(",")
RECURSIVE splitComma(_)
splitComma(s) ==
    LET first == upTo(s, {","})
    IN  IF Len(first) = Len(s) THEN <<s>>
        ELSE <<first>> \o splitComma(SubSeq(s, Len(first) + 2, Len(s)))

defaultExcludePatterns ==
    <<Chars("*.lock"), Chars("*.min.js"), Chars("*.min.css"), Chars("dist/**"),
      Chars("build/**"), Chars("node_modules/**"), Chars("coverage/**")>>

\* String(b) of a boolean
booleanToString(b) == IF b THEN Chars("true") ELSE Chars("false")

\* the Config object built from the inputs; the default prompt of a mode is
\* written by its key in DEFAULT_PROMPTS
configOf(in) ==
    LET reviewMode == IF in.REVIEW_MODE = <<>> THEN Chars("detailed")
                      ELSE in.REVIEW_MODE
    IN  [llmBaseUrl |-> in.LLM_BASE_URL,
         llmModel |-> in.LLM_MODEL,
         llmApiKey |-> in.LLM_API_KEY,
         prompt |-> IF in.PROMPT = <<>>
                    THEN Chars("DEFAULT_PROMPTS.") \o reviewMode
                    ELSE in.PROMPT,
         githubToken |-> in.GITHUB_TOKEN,
         reviewMode |-> reviewMode,
         maxFiles |-> parseIntText(IF in.MAX_FILES = <<>> THEN Chars("50")
                                   ELSE in.MAX_FILES),
         excludePatterns |->
             IF in.EXCLUDE_PATTERNS = <<>> THEN defaultExcludePatterns
             ELSE filterBoolean([k \in 1..Len(splitComma(in.EXCLUDE_PATTERNS)) |->
                                    trim(splitComma(in.EXCLUDE_PATTERNS)[k])]),
         failOnError |-> in.FAIL_ON_ERROR = Chars("true"),
         postAsReview |-> in.POST_AS_REVIEW # Chars("false")]

CfgEvent(fn, text) == [fn |-> fn, text |-> text]

\* the core.info calls of loadConfig
configLines(cfg) ==
    << CfgEvent("info", Chars("Configuration loaded:")),
       CfgEvent("info", Chars("  LLM Base URL: ") \o cfg.llmBaseUrl),
       CfgEvent("info", Chars("  LLM Model: ") \o cfg.llmModel),
       CfgEvent("info", Chars("  Review Mode: ") \o cfg.reviewMode),
       CfgEvent("info", Chars("  Max Files: ")
                            \o (IF cfg.maxFiles \in {NaN, Number(0)}
                                THEN Chars("unlimited")
                                ELSE IF cfg.maxFiles[1] < 0
                                THEN <<"-">> \o numberToString(0 - cfg.maxFiles[1])
                                ELSE numberToString(cfg.maxFiles[1]))),
       CfgEvent("info", Chars("  Exclude Patterns: ")
                            \o join(cfg.excludePatterns, Chars(", "))),
       CfgEvent("info", Chars("  Post as Review: ")
                            \o booleanToString(cfg.postAsReview)),
       CfgEvent("info", Chars("  Fail on Error: ")
                            \o booleanToString(cfg.failOnError)) >>

\* the configuration is logged before the secrets are registered
configEventsLogFirst(cfg) ==
    configLines(cfg) \o << CfgEvent("setSecret", cfg.llmApiKey),
                          CfgEvent("setSecret", cfg.githubToken) >>

\* the core.setSecret and core.info calls of loadConfig, in order
configEvents(cfg) ==
    << CfgEvent("setSecret", cfg.llmApiKey),
       CfgEvent("setSecret", cfg.githubToken) >> \o configLines(cfg)

CfgThrew(message) == [kind |-> "threw", message |-> message, config |-> None]
CfgReturned(cfg) == [kind |-> "returned", message |-> <<>>, config |-> Some(cfg)]

\* loadConfig for the inputs in: the calls it makes and how it ends
loadConfig(in) ==
    LET cfg == configOf(in)
    IN  IF ~includesElement(validModes, cfg.reviewMode)
        THEN [events |-> <<>>,
              result |-> CfgThrew(Chars("Invalid REVIEW_MODE: ") \o cfg.reviewMode
                                  \o Chars(". Must be one of: ")
                                  \o join(validModes, Chars(", ")))]
        ELSE IF ~urlAccepted(in.LLM_BASE_URL)
        THEN [events |-> <<>>,
              result |-> CfgThrew(Chars("Invalid LLM_BASE_URL: ")
                                  \o in.LLM_BASE_URL)]
        ELSE [events |-> configEvents(cfg), result |-> CfgReturned(cfg)]

\* the inputs of the model; the required inputs are supplied
UrlInputs ==
    {Chars(u) : u \in {"https://api.openai.com/v1", "http://localhost:11434",
                       "HTTPS://API.EXAMPLE.COM", "not-a-valid-url",
                       "api.openai.com/v1", "ftp://example.com/v1",
                       "localhost:11434", "https://", "http://exa mple.com",
                       "https://host:port/v1", "file:///etc/hosts"}}
ModeInputs ==
    {Chars(m) : m \in {"", "summary", "detailed", "security", "performance",
                       "Detailed", "invalid-mode"}}
InputsSet ==
    [LLM_BASE_URL : UrlInputs,
     LLM_MODEL : {Chars("gpt-4o")},
     LLM_API_KEY : {Chars("sk-test-api-key"), Chars("K9")},
     PROMPT : {<<>>, Chars("Review it")},
     GITHUB_TOKEN : {Chars("ghp_test-token")},
     REVIEW_MODE : ModeInputs,
     MAX_FILES : {<<>>, Chars("0"), Chars("7"), Chars("-1"), Chars("all")},
     EXCLUDE_PATTERNS : {<<>>, Chars("*.lock, ,*.min.js")},
     FAIL_ON_ERROR : {<<>>, Chars("true")},
     POST_AS_REVIEW : {<<>>, Chars("false")}]

CfgInit ==
    /\ inputs \in InputsSet
    /\ cfgLog = <<>>
    /\ cfgOutcome = None

\* the action calls loadConfig()
CallLoadConfig ==
    /\ cfgOutcome = None
    /\ cfgLog' = loadConfig(inputs).events
    /\ cfgOutcome' = Some(loadConfig(inputs).result)
    /\ UNCHANGED <<inputs, besidesCfg>>

CfgNext == CallLoadConfig

(***************************************************************************)
(* run: the entry point of the action (index.ts)                           *)
(***************************************************************************)
ActCall(fn, name, value) == [fn |-> fn, name |-> name, value |-> value]
setOutput(name, value) == ActCall("setOutput", name, value)

NoContextMessage ==
    Chars("This action can only be run on pull requests. ")
        \o Chars("Make sure your workflow triggers on pull_request events.")

\* failOnError is read from the input without loading the configuration
shouldFailFromInput(in) == in.FAIL_ON_ERROR = Chars("true")

\* try { shouldFail = loadConfig().failOnError } catch { shouldFail = false }
shouldFail(in) ==
    LET again == loadConfig(in).result
    IN  /\ again.kind = "returned"
        /\ again.config[1].failOnError

\* the catch block of run: the calls it makes for the error message
catchCalls(errorMessage, in) ==
    << ActCall("error", "",
               <<"<U+274C>">> \o Chars(" Code review failed: ") \o errorMessage),
       setOutput("review-summary", Chars("Review failed: ") \o errorMessage),
       setOutput("files-reviewed", Chars("0")),
       setOutput("comments-posted", Chars("0")),
       setOutput("status", Chars("failed")) >>
        \o (IF shouldFail(in) THEN << ActCall("setFailed", "", errorMessage) >>
            ELSE <<>>)

\* the calls of run after runReview resolved with result
successCalls(result) ==
    << setOutput("review-summary", Chars(result.summary)),
       setOutput("files-reviewed", numberToString(result.filesReviewed)),
       setOutput("comments-posted", numberToString(result.totalComments)),
       setOutput("status", Chars("success")),
       ActCall("info", "",
               <<"<U+2705>">> \o Chars(" Code review completed successfully")) >>

\* the inputs of the model
PullContext == [owner |-> Chars("acme"), repo |-> Chars("app"), pullNumber |-> 7]
ActInputs ==
    [LLM_BASE_URL : {Chars("https://api.openai.com/v1"), Chars("not-a-valid-url")},
     LLM_MODEL : {Chars("gpt-4o")},
     LLM_API_KEY : {Chars("sk-test-api-key")},
     PROMPT : {<<>>},
     GITHUB_TOKEN : {Chars("ghp_test-token")},
     REVIEW_MODE : {<<>>, Chars("invalid-mode")},
     MAX_FILES : {<<>>},
     EXCLUDE_PATTERNS : {<<>>},
     FAIL_ON_ERROR : {<<>>, Chars("true")},
     POST_AS_REVIEW : {<<>>, Chars("false")}]
ErrorMessages == {MsgTimedOut, MsgInvalid}
\* one changed file of any kind, followed by modified files
ActFileLists ==
    {fileList \in FileLists :
        \A k \in 2..Len(fileList) : fileList[k].status = "modified"}

ActInit ==
    /\ inputs \in ActInputs
    /\ cfgLog = <<>>
    /\ cfgOutcome = None
    /\ context \in {None, Some(PullContext)}
    /\ actCalls = <<>>
    /\ actPc = "start"
    /\ runConfig = [postAsReview |-> FALSE, maxFiles |-> Number(0)]
    /\ changedFiles \in ActFileLists
    /\ fileIndex = 1
    /\ allComments = <<>>
    /\ fileResults = <<>>
    /\ fileLog = <<>>
    /\ inFlight = {}
    /\ overallSummary = None
    /\ posted = <<>>
    /\ deliveryLog = <<>>
    /\ runOutcome = None
    /\ runPc = "details"

\* run up to the call of runReview: loadConfig, getContext, the constructors;
\* an error thrown on the way is handled by the catch block
ActStart ==
    /\ actPc = "start"
    /\ LET loaded == loadConfig(inputs)
       IN  /\ cfgOutcome' = Some(loaded.result)
           /\ IF loaded.result.kind = "threw"
              THEN /\ actCalls' = catchCalls(loaded.result.message, inputs)
                   /\ cfgLog' = loaded.events \o loadConfig(inputs).events
                   /\ actPc' = "ended"
                   /\ UNCHANGED runConfig
              ELSE IF context = None
              THEN /\ actCalls' = catchCalls(NoContextMessage, inputs)
                   /\ cfgLog' = loaded.events \o loadConfig(inputs).events
                   /\ actPc' = "ended"
                   /\ UNCHANGED runConfig
              ELSE /\ actCalls' =
                          << ActCall("info", "",
                                 Chars("Processing PR #")
                                     \o numberToString(context[1].pullNumber)
                                     \o Chars(" in ") \o context[1].owner
                                     \o <<"/">> \o context[1].repo) >>
                   /\ cfgLog' = loaded.events
                   /\ runConfig' =
                          [postAsReview |-> loaded.result.config[1].postAsReview,
                           maxFiles |-> loaded.result.config[1].maxFiles]
                   /\ actPc' = "review"
    /\ UNCHANGED <<inputs, context, changedFiles, fileIndex, allComments,
                   fileResults, fileLog, inFlight, overallSummary, posted,
                   deliveryLog, runOutcome, runPc, besidesAct>>

\* the promise of runReview settled: the outputs, or the catch block with the
\* message of the error runReview rejected with
ActReviewEnds ==
    /\ actPc = "review"
    /\ runPc = "done"
    /\ runOutcome # None
    /\ IF runOutcome[1].kind = "returned"
       THEN /\ actCalls' = actCalls \o successCalls(runOutcome[1].summary[1])
            /\ UNCHANGED cfgLog
       ELSE \E errorMessage \in ErrorMessages :
               /\ actCalls' = actCalls \o catchCalls(errorMessage, inputs)
               /\ cfgLog' = cfgLog \o loadConfig(inputs).events
    /\ actPc' = "ended"
    /\ UNCHANGED <<inputs, cfgOutcome, context, runVars, besidesAct>>

ActNext ==
    \/ ActStart
    \/ ActReviewEnds
    \/ RunNext

(***************************************************************************)
(* Specifications: one per component; the other components stand still.    *)
(***************************************************************************)
RetryIdle ==
    /\ options = [maxAttempts |-> None, backoffMs |-> None,
                  maxBackoffMs |-> None, retryableErrors |-> None]
    /\ attempt = 0
    /\ rpc = "init"
    /\ calls = 0
    /\ lastError = None
    /\ outcome = Pending
    /\ thrown = <<>>
    /\ log = <<>>

DiffIdle ==
    /\ patchLines = <<>>
    /\ targetLine = 0
    /\ mapResult = None
    /\ dpc = "input"

SugIdle ==
    /\ suggestion = <<>>
    /\ originalLine = None
    /\ validResult = FALSE
    /\ spc = "input"

ComIdle ==
    /\ issues = <<>>
    /\ patch = <<>>
    /\ comments = <<>>
    /\ cpc = "input"

DelIdle ==
    /\ dComments = <<>>
    /\ dBody = ""
    /\ called = None
    /\ requests = <<>>
    /\ dResult = None

RunIdle ==
    /\ runConfig = [postAsReview |-> FALSE, maxFiles |-> Number(0)]
    /\ changedFiles = <<>>
    /\ fileIndex = 1
    /\ allComments = <<>>
    /\ fileResults = <<>>
    /\ fileLog = <<>>
    /\ inFlight = {}
    /\ overallSummary = None
    /\ posted = <<>>
    /\ deliveryLog = <<>>
    /\ runOutcome = None
    /\ runPc = "details"

LineIdle ==
    /\ blob = <<>>
    /\ lineCalls = <<>>

CfgIdle ==
    /\ inputs = [LLM_BASE_URL |-> <<>>]
    /\ cfgLog = <<>>
    /\ cfgOutcome = None

\* run has constructed the orchestrator and awaits runReview
ActIdle ==
    /\ context = None
    /\ actCalls = <<>>
    /\ actPc = "review"

RetrySpecInit ==
    RetryInit /\ DiffIdle /\ SugIdle /\ ComIdle /\ DelIdle /\ RunIdle
        /\ LineIdle /\ CfgIdle /\ ActIdle
RetrySpec == RetrySpecInit /\ [][RetryNext]_vars

\* an invocation in flight eventually settles and a pending timer eventually
\* fires: every step of withRetry that can be taken is taken
RetryFairSpec == RetrySpec /\ WF_vars(RetryNext)

DiffSpecInit ==
    DiffInit /\ RetryIdle /\ SugIdle /\ ComIdle /\ DelIdle /\ RunIdle
        /\ LineIdle /\ CfgIdle /\ ActIdle
DiffSpec == DiffSpecInit /\ [][DiffNext]_vars

SugSpecInit ==
    SugInit /\ RetryIdle /\ DiffIdle /\ ComIdle /\ DelIdle /\ RunIdle
        /\ LineIdle /\ CfgIdle /\ ActIdle
SugSpec == SugSpecInit /\ [][SugNext]_vars

ComSpecInit ==
    ComInit /\ RetryIdle /\ DiffIdle /\ SugIdle /\ DelIdle /\ RunIdle
        /\ LineIdle /\ CfgIdle /\ ActIdle
ComSpec == ComSpecInit /\ [][ComNext]_vars

DelSpecInit ==
    DelInit /\ RetryIdle /\ DiffIdle /\ SugIdle /\ ComIdle /\ RunIdle
        /\ LineIdle /\ CfgIdle /\ ActIdle
DelSpec == DelSpecInit /\ [][DelNext]_vars

RunSpecInit ==
    RunInit /\ RetryIdle /\ DiffIdle /\ SugIdle /\ ComIdle /\ DelIdle
        /\ LineIdle /\ CfgIdle /\ ActIdle
RunSpec == RunSpecInit /\ [][RunNext]_vars

LineSpecInit ==
    LineInit /\ RetryIdle /\ DiffIdle /\ SugIdle /\ ComIdle /\ DelIdle /\ RunIdle
        /\ CfgIdle /\ ActIdle
LineSpec == LineSpecInit /\ [][LineNext]_vars

CfgSpecInit ==
    CfgInit /\ RetryIdle /\ DiffIdle /\ SugIdle /\ ComIdle /\ DelIdle /\ RunIdle
        /\ LineIdle /\ ActIdle
CfgSpec == CfgSpecInit /\ [][CfgNext]_vars

ActSpecInit ==
    ActInit /\ RetryIdle /\ DiffIdle /\ SugIdle /\ ComIdle /\ DelIdle /\ LineIdle
ActSpec == ActSpecInit /\ [][ActNext]_vars

(***************************************************************************)
(* Properties of withRetry                                                 *)
(***************************************************************************)
Pow2(n) == 2^n
Sleeps == SelectSeq(log, LAMBDA e : e.ev = "sleep")
Warnings == SelectSeq(log, LAMBDA e : e.ev = "warning")
CountEv(kinds) == Len(SelectSeq(log, LAMBDA e : e.ev \in kinds))
HasMarker(message) ==
    \E k \in 1..Len(config.retryableErrors) :
        includes(toLowerCase(message), toLowerCase(config.retryableErrors[k]))
IsExhausted(o) ==
    /\ o.kind = "rejected"
    /\ o.error[1].name = "RetryExhaustedError"

\* C1: for any maxAttempts >= 1, when the operation fails with an error whose
\* message contains none of the retryable markers, the operation is invoked
\* exactly once and withRetry rejects with that same error, not wrapped in a
\* RetryExhaustedError, with no warning and no sleep.
C1_NonRetryableOnce ==
    ( /\ rpc = "done"
      /\ config.maxAttempts >= 1
      /\ Len(thrown) >= 1
      /\ thrown[1].isError
      /\ ~HasMarker(thrown[1].message) )
    => ( /\ calls = 1
         /\ outcome = Rejected(thrown[1])
         /\ Len(Warnings) = 0
         /\ Len(Sleeps) = 0 )

\* C2: when every invocation fails with a retryable error, the operation is
\* invoked exactly maxAttempts times and withRetry rejects with a
\* RetryExhaustedError whose originalError is the error of the last invocation
\* and whose attempts equals maxAttempts.
C2_ExhaustedAfterMaxAttempts ==
    ( /\ rpc = "done"
      /\ config.maxAttempts >= 1
      /\ Len(thrown) = calls
      /\ calls >= 1
      /\ \A k \in 1..Len(thrown) : isRetryable(thrown[k], config.retryableErrors) )
    => ( /\ calls = config.maxAttempts
         /\ IsExhausted(outcome)
         /\ outcome.error[1].originalError = Some(thrown[calls])
         /\ outcome.error[1].attempts = config.maxAttempts
         /\ outcome.error[1].attempts = calls )

C2_Witness ==
    /\ rpc = "done"
    /\ config.maxAttempts = 3
    /\ calls = 3
    /\ Len(thrown) = 3
    /\ \A k \in 1..3 : isRetryable(thrown[k], config.retryableErrors)
    /\ thrown[1].message # thrown[3].message
    /\ IsExhausted(outcome)

\* C3: as soon as one invocation succeeds withRetry resolves with the result of
\* that invocation and never invokes the operation again; k failed invocations
\* (retryable, k < maxAttempts) followed by a success are k + 1 invocations, and
\* a retryable failure with attempts left is never the end of the call.
C3_StateOnSuccess ==
    /\ outcome.kind = "resolved" =>
         /\ rpc = "done"
         /\ outcome.value[1].id = calls
         /\ calls = Len(thrown) + 1
         /\ Len(thrown) < config.maxAttempts
         /\ \A k \in 1..Len(thrown) : isRetryable(thrown[k], config.retryableErrors)
    /\ (rpc = "done" /\ outcome.kind = "rejected" /\ calls >= 1) =>
         \/ calls = config.maxAttempts
         \/ ~isRetryable(thrown[calls], config.retryableErrors)

C3_SuccessEndsTheCall ==
    /\ []C3_StateOnSuccess
    /\ [][outcome.kind = "resolved" => (calls' = calls /\ outcome' = outcome)]_vars

C3_Witness ==
    /\ rpc = "done"
    /\ outcome.kind = "resolved"
    /\ Len(thrown) = 2
    /\ calls = 3

\* the delays of C4 and the order of the attempts they follow
C4_DelayFormula ==
    /\ \A k \in 1..Len(Sleeps) :
         /\ Sleeps[k].attempt = k
         /\ Sleeps[k].delay = Min(config.backoffMs * Pow2(k - 1), config.maxBackoffMs)
         /\ Sleeps[k].delay <= config.maxBackoffMs
    /\ \A k \in 1..(Len(Sleeps) - 1) : Sleeps[k].delay <= Sleeps[k + 1].delay
    /\ Len(Sleeps) = IF rpc = "done" /\ outcome.kind = "rejected" /\ calls >= 1
                     THEN Len(thrown) - 1 ELSE Len(thrown)

C4_TwoFailuresThenSuccess ==
    rpc = "done" /\ outcome.kind = "resolved" /\ Len(thrown) = 2

\* C4 as stated: the delay slept after the k-th failed attempt is
\* min(backoffMs * 2^(k-1), maxBackoffMs), never above maxBackoffMs and never
\* decreasing, and two retryable failures followed by a success are 3
\* invocations with suspensions of backoffMs and then 2 * backoffMs.
C4_Original ==
    /\ C4_DelayFormula
    /\ C4_TwoFailuresThenSuccess =>
         /\ calls = 3
         /\ [k \in 1..Len(Sleeps) |-> Sleeps[k].delay]
                = <<config.backoffMs, 2 * config.backoffMs>>

\* C4, amended: as above, the suspensions being backoffMs and then
\* 2 * backoffMs when 2 * backoffMs does not exceed maxBackoffMs.
C4_BackoffDelays ==
    /\ C4_DelayFormula
    /\ (C4_TwoFailuresThenSuccess /\ 2 * config.backoffMs <= config.maxBackoffMs) =>
         /\ calls = 3
         /\ [k \in 1..Len(Sleeps) |-> Sleeps[k].delay]
                = <<config.backoffMs, 2 * config.backoffMs>>

C4_Witness ==
    /\ C4_TwoFailuresThenSuccess
    /\ config.backoffMs > 0
    /\ 2 * config.backoffMs <= config.maxBackoffMs
    /\ calls = 3
    /\ Sleeps[1].delay = config.backoffMs
    /\ Sleeps[2].delay = 2 * config.backoffMs

\* the attempts of C5 are serial: an invocation other than the first comes
\* right after the failure of the previous one, its warning, its sleep and the
\* end of that sleep, and at most one invocation is in flight
C5_Serial ==
    /\ \A i \in 1..Len(log) :
         log[i].ev = "invoke" =>
            \/ i = 1 /\ log[i].attempt = 1
            \/ /\ i >= 6
               /\ log[i - 1].ev = "wake"
               /\ log[i - 2].ev = "sleep"
               /\ log[i - 3].ev = "warning"
               /\ log[i - 4].ev = "fail"
               /\ log[i - 5].ev = "invoke"
               /\ log[i].attempt = log[i - 5].attempt + 1
    /\ CountEv({"invoke"}) = calls
    /\ CountEv({"invoke"}) - CountEv({"fail", "reject", "resolve"})
           = IF rpc = "calling" THEN 1 ELSE 0

C5_Bounded ==
    config.maxAttempts >= 1 =>
        /\ calls <= config.maxAttempts
        /\ rpc = "done" => /\ calls >= 1
                           /\ outcome.kind \in {"resolved", "rejected"}
        /\ rpc # "done" => outcome.kind = "pending"
        /\ C5_Serial

\* C5: for every maxAttempts >= 1 and every sequence of outcomes of the
\* operation, withRetry terminates with a result or an error after at least one
\* and at most maxAttempts invocations, and the attempts are strictly serial.
C5_Terminates ==
    /\ []C5_Bounded
    /\ (config.maxAttempts >= 1) => <>(rpc = "done")

C5_Witness ==
    /\ rpc = "done"
    /\ config.maxAttempts = MaxAttemptsOpt
    /\ calls = MaxAttemptsOpt
    /\ outcome.kind = "rejected"

(***************************************************************************)
(* Properties of mapLineToDiff.  The hunks, added lines and new-file line   *)
(* numbers of a patch are those of the unified diff format: a hunk header   *)
(* is a line that begins with "@@ -a[,b] +c[,d] @@", and the lines after it  *)
(* that do not begin with "-" are the lines c, c + 1, ... of the new file.  *)
(***************************************************************************)
IsHunkHeader(line) == HunkMatchAt(line, 1) # None
HeaderNewStart(line) == parseInt(HunkMatchAt(line, 1)[1])

\* the position of the header of the hunk that line p of the patch lies in
\* (p itself when line p is a header, 0 before the first header)
HunkOf(lines, p) ==
    IF \E h \in 1..p : IsHunkHeader(lines[h])
    THEN CHOOSE h \in 1..p :
             /\ IsHunkHeader(lines[h])
             /\ \A j \in (h + 1)..p : ~IsHunkHeader(lines[j])
    ELSE 0

IsAddedLine(lines, p) ==
    /\ p \in 1..Len(lines)
    /\ HunkOf(lines, p) \notin {0, p}
    /\ startsWith(lines[p], <<"+">>)

IsContextLine(lines, p) ==
    /\ p \in 1..Len(lines)
    /\ HunkOf(lines, p) \notin {0, p}
    /\ ~startsWith(lines[p], <<"+">>)
    /\ ~startsWith(lines[p], <<"-">>)

\* the new-file line number of line p of a hunk (p not a removed line)
NewFileLine(lines, p) ==
    LET h == HunkOf(lines, p)
    IN  HeaderNewStart(lines[h]) - 1
            + Cardinality({j \in (h + 1)..p : ~startsWith(lines[j], <<"-">>)})

C6Patch == <<HunkA, CtxLine1, AddLineA, AddLineB, CtxLine2>>

\* C6 as stated: for the patch "@@ -1,3 +1,5 @@", " line1", "+lineA", "+lineB",
\* " line2", mapLineToDiff with target line 1 returns position 3.
C6_Original ==
    (dpc = "mapped" /\ patchLines = C6Patch /\ targetLine = 1)
        => mapResult = Some(3)

\* C6, amended: for that patch, mapLineToDiff with target line 2, the new-file
\* line of the first added line, returns position 3 (line 1 is the context
\* line " line1").
C6_FirstAddedLine ==
    (dpc = "mapped" /\ patchLines = C6Patch /\ targetLine = 2)
        => mapResult = Some(3)

C6_Witness ==
    /\ dpc = "mapped"
    /\ patchLines = C6Patch
    /\ targetLine = 2
    /\ mapResult = Some(3)
    /\ NewFileLine(patchLines, 3) = 2

C8_UnmappedWithoutAddedLine ==
    ( /\ dpc = "mapped"
      /\ ~\E p \in 1..Len(patchLines) :
             IsAddedLine(patchLines, p) /\ NewFileLine(patchLines, p) = targetLine )
    => mapResult = None

\* C9: within one hunk the mapping is strictly increasing: for target lines
\* a < b that both map to added lines of the same hunk,
\* mapLineToDiff(a) < mapLineToDiff(b).
C9_IncreasingWithinHunk ==
    dpc = "mapped" =>
        \A b \in 0..MaxTarget :
            LET pa == mapResult
                pb == mapLineToDiff(b, patchLines)
            IN  ( /\ targetLine < b
                  /\ pa # None
                  /\ pb # None
                  /\ IsAddedLine(patchLines, pa[1])
                  /\ IsAddedLine(patchLines, pb[1])
                  /\ HunkOf(patchLines, pa[1]) = HunkOf(patchLines, pb[1]) )
                => pa[1] < pb[1]

(***************************************************************************)
(* Properties of isValidSuggestion                                         *)
(***************************************************************************)
\* the six rejection rules, as the specification words them
RuleBlank(sug) == \A k \in 1..Len(sug) : IsWhiteSpace(sug[k])
RuleLineBreak(sug) == \E k \in 1..Len(sug) : sug[k] \in {"\n", "\r"}
RuleUnknownOriginal(orig) == orig = None
RuleUnchanged(sug, orig) == orig # None /\ trim(sug) = trim(orig[1])
RuleAdvisory(sug) ==
    \E k \in 1..Len(adviceIndicators) : includes(toLowerCase(sug), adviceIndicators[k])
RuleKeyMismatch(sug, orig) ==
    /\ orig # None
    /\ \E k \in 1..Len(sug) : sug[k] = ":"
    /\ \E k \in 1..Len(orig[1]) : orig[1][k] = ":"
    /\ trim(splitColonFirst(sug)) # trim(splitColonFirst(orig[1]))

AnyRuleRejects(sug, orig) ==
    \/ RuleBlank(sug)
    \/ RuleLineBreak(sug)
    \/ RuleUnknownOriginal(orig)
    \/ RuleUnchanged(sug, orig)
    \/ RuleAdvisory(sug)
    \/ RuleKeyMismatch(sug, orig)

\* C10: isValidSuggestion(suggestion, originalLine) returns true exactly when
\* none of the six rejection rules applies; in particular it returns true for
\* every other input with a non-null original line.
C10_ValidIffNoRule ==
    spc = "validated" =>
        (validResult <=> ~AnyRuleRejects(suggestion, originalLine))

\* the checks of the validator that come before the key rule
SameLetter(a, b) == toLowerChar(a) = toLowerChar(b)
HasPhrase(sug, phrase) ==
    \E k \in 1..(Len(sug) - Len(phrase) + 1) :
        \A j \in 1..Len(phrase) : SameLetter(sug[k + j - 1], phrase[j])
HasAdvisoryPhrase(sug) ==
    \E k \in 1..Len(adviceIndicators) : HasPhrase(sug, adviceIndicators[k])
HasColon(s) == \E k \in 1..Len(s) : s[k] = ":"
KeyOf(s) ==
    LET n == IF HasColon(s)
             THEN (CHOOSE k \in 1..Len(s) :
                       s[k] = ":" /\ \A j \in 1..(k - 1) : s[j] # ":") - 1
             ELSE Len(s)
    IN  trim(SubSeq(s, 1, n))
EarlierCheckRejects(sug, orig) ==
    \/ RuleBlank(sug)
    \/ RuleLineBreak(sug)
    \/ orig = None
    \/ orig[1] = <<>>
    \/ RuleUnchanged(sug, orig)
    \/ HasAdvisoryPhrase(sug)

\* C11: for every suggestion string, isValidSuggestion with an unknown (null)
\* original line returns false.
C11_NullOriginalRejected ==
    (spc = "validated" /\ originalLine = None) => ~validResult

\* a well-formed replacement text was validated against an unknown original
C11_Witness ==
    /\ spc = "validated"
    /\ originalLine = None
    /\ suggestion = SugTimeout10
    /\ ~validResult

\* C12: a suggestion that contains one of the advisory phrases, in any letter
\* case and anywhere as a substring, is inadmissible whatever the original
\* line is; "You should add a cache here" against "cache: npm" is rejected.
C12_AdvisoryRejected ==
    spc = "validated" =>
        /\ HasAdvisoryPhrase(suggestion) => ~validResult
        /\ (suggestion = SugYouShould /\ originalLine = Some(OrigCacheNpm))
               => ~validResult

\* an advisory phrase in capital letters inside a word, which no other check
\* of the validator rejects
C12_Witness ==
    /\ spc = "validated"
    /\ suggestion = <<"u", "n", "V", "E", "R", "I", "F", "Y", "e", "d">>
    /\ originalLine = Some(OrigCacheNpm)
    /\ ~validResult

\* C13: when both the original line and the suggestion contain ':', the
\* suggestion is admissible only if the trimmed text before the first ':' is
\* the same in both ("timeout-minutes: 10" against "timeout-minutes: 5" is
\* admissible, "runs-on: ubuntu-latest" against "timeout-minutes: 5" is not);
\* when at most one of them contains ':', a rejection is always the work of
\* another check.
C13_KeyRule ==
    spc = "validated" =>
        /\ ( /\ originalLine # None
             /\ HasColon(originalLine[1])
             /\ HasColon(suggestion)
             /\ validResult )
               => KeyOf(suggestion) = KeyOf(originalLine[1])
        /\ (suggestion = SugTimeout10 /\ originalLine = Some(OrigTimeout5))
               => validResult
        /\ (suggestion = SugRunsOn /\ originalLine = Some(OrigTimeout5))
               => ~validResult
        /\ ( /\ ~validResult
             /\ ~(originalLine # None /\ HasColon(originalLine[1])
                                      /\ HasColon(suggestion)) )
               => EarlierCheckRejects(suggestion, originalLine)

\* a suggestion with another key than the original line was rejected by the
\* key rule alone
C13_Witness ==
    /\ spc = "validated"
    /\ suggestion = SugRunsOn
    /\ originalLine = Some(OrigTimeout5)
    /\ ~validResult
    /\ ~EarlierCheckRejects(suggestion, originalLine)

(***************************************************************************)
(* Properties of createReviewComments                                      *)
(***************************************************************************)
\* the issues whose line maps to a diff position, in the order of the list
Mappable == SelectSeq(issues, LAMBDA is : mapLineToDiff(is.line, patch) # None)

\* the content of the diff line a comment is anchored to
AnchoredContent(c) ==
    LET l == patch[c.line]
    IN  IF Len(l) > 0 /\ l[1] = "+" THEN SubSeq(l, 2, Len(l)) ELSE l

Fence == <<Tick, Tick, Tick, "s", "u", "g", "g", "e", "s", "t", "i", "o", "n">>
HasSuggestionBlock(body) == includes(body, Fence)
HoldsSuggestion(body, text) ==
    includes(body, Fence \o <<"\n">> \o text \o <<"\n", Tick, Tick, Tick>>)

\* C14: a comment body contains the suggestion block if and only if the issue
\* carries a suggestion and that suggestion passed isValidSuggestion against
\* the content of the diff line the comment is anchored to; the block of a
\* body holds the suggestion of its issue.
C14_BlockIffValidated ==
    (cpc = "created" /\ Len(comments) = Len(Mappable)) =>
        \A k \in 1..Len(comments) :
            LET is == Mappable[k]
                c == comments[k]
            IN  /\ HasSuggestionBlock(c.body)
                      <=> ( /\ is.suggestion # None
                            /\ isValidSuggestion(is.suggestion[1],
                                                 Some(AnchoredContent(c))) )
                /\ HasSuggestionBlock(c.body)
                      => HoldsSuggestion(c.body, is.suggestion[1])

\* one comment carries the block of its validated suggestion and the next one
\* has none because its suggestion failed validation
C14_Witness ==
    /\ cpc = "created"
    /\ patch = PatchYaml
    /\ Len(issues) = 2
    /\ Len(comments) = 2
    /\ issues[1].suggestion = Some(SugTimeout10)
    /\ issues[2].suggestion = Some(SugRunsOn)
    /\ HoldsSuggestion(comments[1].body, SugTimeout10)
    /\ ~HasSuggestionBlock(comments[2].body)

\* C15: createReviewComments emits exactly one comment for each issue whose
\* line maps to a diff position, whether or not its suggestion is admissible,
\* and none for an issue whose line is unmapped; the comments keep the order
\* of the issue list, so there are as many comments as mappable issues.
C15_OneCommentPerMappableIssue ==
    cpc = "created" =>
        /\ Len(comments) = Len(Mappable)
        /\ \A k \in 1..Len(Mappable) :
               /\ k <= Len(comments)
               /\ comments[k].line = mapLineToDiff(Mappable[k].line, patch)[1]
               /\ startsWith(comments[k].body,
                             getSeverityEmoji(Mappable[k].severity))
               /\ includes(comments[k].body, Mappable[k].message)

\* an unmapped issue is followed by a mappable one whose suggestion is
\* rejected: the only comment is that of the second issue
C15_Witness ==
    /\ cpc = "created"
    /\ patch = PatchYaml
    /\ Len(issues) = 2
    /\ mapLineToDiff(issues[1].line, patch) = None
    /\ issues[2].line = 2
    /\ issues[2].suggestion = Some(SugRunsOn)
    /\ Len(comments) = 1
    /\ comments[1].line = 3
    /\ ~HasSuggestionBlock(comments[1].body)

\* the sections of a body as the issue defines them: the severity marker with
\* the uppercased category label, the message, the suggestion block
HeaderSection(is) ==
    getSeverityEmoji(is.severity)
        \o (IF Len(is.category) > 0
            THEN <<" ", "*", "*">> \o toUpperCase(is.category) \o <<"*", "*">>
            ELSE <<>>)
BlockSection(is) ==
    <<"*", "*", "S", "u", "g", "g", "e", "s", "t", "i", "o", "n", ":", "*", "*",
      "\n">> \o Fence \o <<"\n">> \o is.suggestion[1] \o <<"\n", Tick, Tick, Tick>>
SectionsOf(is, c) ==
    SelectSeq(<< HeaderSection(is),
                 is.message,
                 IF HasSuggestionBlock(c.body) THEN BlockSection(is) ELSE <<>> >>,
              LAMBDA part : Len(part) > 0)
RECURSIVE BlankLineJoined(_)
BlankLineJoined(parts) ==
    IF parts = <<>> THEN <<>>
    ELSE IF Len(parts) = 1 THEN parts[1]
    ELSE parts[1] \o <<"\n", "\n">> \o BlankLineJoined(Tail(parts))

\* C16: in every comment body the non-empty sections (severity marker with
\* uppercased category label, message text, suggestion block) are separated
\* from each other by a blank line, and an absent or empty section is dropped
\* entirely, leaving no blank line or dangling separator in its place.
C16_BlankLineSeparated ==
    (cpc = "created" /\ Len(comments) = Len(Mappable)) =>
        \A k \in 1..Len(comments) :
            comments[k].body = BlankLineJoined(SectionsOf(Mappable[k], comments[k]))

(***************************************************************************)
(* Properties of the delivery methods                                      *)
(***************************************************************************)
EndsWith(s, suffix) ==
    /\ Len(s) >= Len(suffix)
    /\ SubSeq(s, Len(s) - Len(suffix) + 1, Len(s)) = suffix

\* C17: a review body or general comment body longer than 65000 characters is
\* delivered as its first 65000 characters followed by the truncation
\* marker, so its length is exactly 65000 + len(marker) and it ends with the
\* marker; a body of at most 65000 characters is delivered unchanged.
C17_Truncation ==
    \A k \in 1..Len(requests) :
        requests[k].body # None =>
            LET sent == requests[k].body[1]
            IN  /\ Len(dBody) > 65000 =>
                      /\ SubSeq(sent, 1, 65000) = SubSeq(dBody, 1, 65000)
                      /\ Len(sent) = 65000 + Len(TruncationMarker)
                      /\ EndsWith(sent, TruncationMarker)
                /\ Len(dBody) <= 65000 => sent = dBody

\* a body of 70000 characters was handed over cut to 65000 plus the marker
C17_Witness ==
    /\ Len(dBody) = 70000
    /\ Len(requests) = 1
    /\ requests[1].body # None
    /\ Len(requests[1].body[1]) = 65000 + Len(TruncationMarker)

\* C18: every body text handed to the remote API (review body, general
\* comment body and each line-comment body) has at most 65000 characters.
C18_DeliveredBodiesBounded ==
    \A k \in 1..Len(requests) :
        /\ requests[k].body # None => Len(requests[k].body[1]) <= 65000
        /\ \A j \in 1..Len(requests[k].comments) :
               Len(requests[k].comments[j].body) <= 65000

(***************************************************************************)
(* Properties of runReview                                                 *)
(***************************************************************************)
LoopIsOver == runPc \in {"deliver", "general"} \/ (runPc = "done" /\ overallSummary # None)
HasCommentOn(name) == \E k \in 1..Len(allComments) : allComments[k].path = name
HasResultOf(name) == \E k \in 1..Len(fileResults) : fileResults[k].filePath = name
RunHasReturned == runOutcome # None /\ runOutcome[1].kind = "returned"

\* C19: when the analysis call or the comment synthesis for one file throws,
\* runReview catches the error: that file contributes no comments and no
\* entry to the per-file results, every later file of the list is still
\* processed, the run goes on to summary generation and delivery, and
\* runReview never rejects because of the failing file.
C19_FailingFileIsolated ==
    /\ \A k \in 1..Len(fileLog) :
           fileLog[k].outcome = "failed" =>
               /\ ~HasCommentOn(fileLog[k].filename)
               /\ ~HasResultOf(fileLog[k].filename)
               /\ runPc = "loop" => fileIndex > k
    /\ \A k \in 1..Len(fileLog) : fileLog[k].filename = filesToReview[k].filename
    /\ (runPc = "loop" /\ Len(fileLog) > 0) => fileIndex = Len(fileLog) + 1
    /\ LoopIsOver => Len(fileLog) = Len(filesToReview)
    /\ (runOutcome # None /\ runOutcome[1].kind = "rejected") =>
           runOutcome[1].cause[1] \in
               {"getPRDetails", "getChangedFiles", "generateSummary",
                "createReview", "postReviewComments", "postGeneralComment"}

\* the first file failed, the second one was reviewed, and the run returned
\* after its comments were delivered
C19_Witness ==
    /\ Len(fileLog) = 2
    /\ fileLog[1].outcome = "failed"
    /\ fileLog[2].outcome = "reviewed"
    /\ RunHasReturned
    /\ Len(allComments) > 0
    /\ \E k \in 1..Len(posted) : posted[k].ok /\ Len(posted[k].comments) > 0

StartsWithText(s, prefix) ==
    /\ Len(s) >= Len(prefix)
    /\ SubSeq(s, 1, Len(prefix)) = prefix
IsApprovalBody(body) ==
    /\ body # None
    /\ StartsWithText(body[1], "## <U+2705> AI Code Review Complete")
    /\ EndsWith(body[1], "**No issues found!** Great job! <U+1F389>")

\* C20: when a run over at least one changed file produces no comment, an
\* approval-style summary body has been delivered to the remote review
\* surface when runReview returns, with postAsReview true and false, and no
\* line comment has been posted.
C20_ApprovalDelivered ==
    ( /\ RunHasReturned
      /\ Len(changedFiles) >= 1
      /\ Len(allComments) = 0 )
    => /\ \E k \in 1..Len(posted) :
              posted[k].ok /\ IsApprovalBody(posted[k].body)
       /\ \A k \in 1..Len(posted) : Len(posted[k].comments) = 0

ReviewedCount == Len(SelectSeq(fileLog, LAMBDA e : e.outcome = "reviewed"))

\* C21: in the summary runReview returns, filesReviewed is the number of
\* processed files whose review completed without throwing (failed, removed
\* and patchless files are not counted), totalFiles is the number of changed
\* files before the maxFiles limit, and filesReviewed <= totalFiles.
C21_FilesReviewedCount ==
    RunHasReturned =>
        LET summary == runOutcome[1].summary[1]
        IN  /\ summary.filesReviewed = ReviewedCount
            /\ summary.totalFiles = Len(changedFiles)
            /\ summary.filesReviewed <= summary.totalFiles

\* of two changed files one failed and one was reviewed
C21_Witness ==
    /\ RunHasReturned
    /\ Len(changedFiles) = 2
    /\ Len(fileLog) = 2
    /\ \E k \in 1..2 : fileLog[k].outcome = "failed"
    /\ runOutcome[1].summary[1].filesReviewed = 1
    /\ runOutcome[1].summary[1].totalFiles = 2

\* the comments handed to the remote API, in the order of the requests
DeliveredList == Flatten([k \in 1..Len(posted) |-> posted[k].comments])
PerFileComments == Flatten([k \in 1..Len(fileLog) |-> fileLog[k].comments])

\* C22: files are processed strictly one after another: at most one analysis
\* call is in flight, the analysis of a file starts only after every earlier
\* file has been reviewed, failed or skipped, and the delivered comment list
\* is the concatenation of the per-file comment lists in processing order.
C22_FilesProcessedSerially ==
    /\ Cardinality(inFlight) <= 1
    /\ \A name \in inFlight :
           /\ Len(fileLog) < Len(filesToReview)
           /\ name = filesToReview[Len(fileLog) + 1].filename
    /\ allComments = PerFileComments
    /\ DeliveredList # <<>> => DeliveredList = PerFileComments

\* the comments of two files were delivered, those of the first file first
C22_Witness ==
    /\ Len(fileLog) = 2
    /\ Len(fileLog[1].comments) > 0
    /\ Len(fileLog[2].comments) > 0
    /\ DeliveredList = fileLog[1].comments \o fileLog[2].comments

\* a delivery call of the batch ended in exhaustion of its retry attempts
BatchExhausted == \E k \in 1..Len(requests) : requests[k].end = "exhausted"
NoCommentPosted ==
    \A k \in 1..Len(requests) :
        ~(requests[k].ok /\ Len(requests[k].comments) > 0)

\* C23: when the delivery of a batch of comments (createReview or
\* postReviewComments) ends in transport exhaustion, the delivery method
\* fails towards its caller and no comment of the batch has been posted.
C23_ExhaustionSurfaced ==
    /\ called \in {Some("createReview"), Some("postReviewComments")}
    /\ BatchExhausted
    => /\ dResult = Some("threw")
       /\ NoCommentPosted

\* the part of C23 about createReview alone
C23_CreateReviewOnly ==
    called = Some("createReview") /\ BatchExhausted
        => dResult = Some("threw") /\ NoCommentPosted

\* the markers in force: the caller's list when one is given, else the default
ConfiguredMarkers ==
    IF options.retryableErrors = None
    THEN << MsgTimedOut,
            <<"E", "C", "O", "N", "N", "R", "E", "S", "E", "T">>,
            <<"E", "C", "O", "N", "N", "R", "E", "F", "U", "S", "E", "D">>,
            <<"4", "2", "9">>, <<"5", "0", "2">>, <<"5", "0", "3">>,
            <<"5", "0", "4">> >>
    ELSE options.retryableErrors[1]
ContainsMarker(message) ==
    \E k \in 1..Len(ConfiguredMarkers) :
        \E at \in 1..Len(message) :
            /\ at + Len(ConfiguredMarkers[k]) - 1 <= Len(message)
            /\ \A j \in 1..Len(ConfiguredMarkers[k]) :
                   SameLetter(message[at + j - 1], ConfiguredMarkers[k][j])
\* the k-th failed attempt was followed by a warning and a sleep
RetryScheduled(k) ==
    /\ \E i \in 1..Len(log) : log[i].ev = "sleep" /\ log[i].attempt = k
    /\ calls > k \/ (calls = k /\ rpc = "sleeping")
\* the k-th failed attempt ended the call with the error it threw
EndedWith(k) ==
    /\ rpc = "done"
    /\ calls = k
    /\ outcome = Rejected(thrown[k])

\* C24: a failed attempt that is not the last one is retried if and only if
\* the message of the thrown error contains, compared case-insensitively, one
\* of the configured retryable markers; a caller-supplied marker list replaces
\* the default list.
C24_RetriedIffMarker ==
    \A k \in 1..Len(thrown) :
        (k < config.maxAttempts /\ thrown[k].isError) =>
            /\ ContainsMarker(thrown[k].message) <=> RetryScheduled(k)
            /\ ~ContainsMarker(thrown[k].message) <=> EndedWith(k)

\* under a caller-supplied list "Invalid request" was retried and ETIMEDOUT,
\* a marker of the default list only, ended the call
C24_Witness ==
    /\ options.retryableErrors = Some(CustomRetryableErrors)
    /\ config.maxAttempts = 3
    /\ Len(thrown) = 2
    /\ thrown[1].isError /\ thrown[1].message = MsgInvalid
    /\ thrown[2].isError /\ thrown[2].message = MsgTimedOut
    /\ RetryScheduled(1)
    /\ EndedWith(2)

\* under the default list a lower-case "econnreset" was retried
C24_WitnessDefault ==
    /\ options.retryableErrors = None
    /\ Len(thrown) >= 1
    /\ thrown[1].isError /\ thrown[1].message = MsgConnReset
    /\ RetryScheduled(1)

(***************************************************************************)
(* Properties of mapLineToDiff against the numbering of the unified diff   *)
(***************************************************************************)
\* the positions of the added lines that carry new-file line number n
AddedLinesNumbered(lines, n) ==
    {p \in 1..Len(lines) : IsAddedLine(lines, p) /\ NewFileLine(lines, p) = n}

\* the reference numbering: the smallest position of an added line whose
\* new-file line number is the target, null when there is none
ReferencePosition(lines, n) ==
    IF AddedLinesNumbered(lines, n) = {} THEN None
    ELSE Some(CHOOSE p \in AddedLinesNumbered(lines, n) :
                  \A q \in AddedLinesNumbered(lines, n) : p <= q)

\* C28: mapLineToDiff agrees with the reference numbering: a hunk header
\* restarts the counter at newStart - 1, every later line of the hunk that
\* does not begin with "-" advances it by one, lines before the first header
\* are ignored, and the result is the smallest position of an added line
\* whose counter value is the target (null when there is none).
C28_AgreesWithReference ==
    dpc = "mapped" => mapResult = ReferencePosition(patchLines, targetLine)

\* C29: every line that begins with "+" and lies after a hunk header is an
\* added line whatever text follows the "+": it advances the counter by one
\* and can be matched, so asking for its new-file line number yields a
\* position, that of the line or of an earlier added line with that number.
C29_PlusLineIsAddedLine ==
    dpc = "mapped" =>
        \A p \in 1..Len(patchLines) :
            ( /\ startsWith(patchLines[p], <<"+">>)
              /\ \E h \in 1..(p - 1) : IsHunkHeader(patchLines[h])
              /\ NewFileLine(patchLines, p) = targetLine )
            => /\ mapResult # None
               /\ mapResult[1] <= p

(***************************************************************************)
(* Properties of loadConfig                                                *)
(***************************************************************************)
ReviewModes == {Chars(m) : m \in {"summary", "detailed", "security", "performance"}}
ModeIsInvalid == inputs.REVIEW_MODE # <<>> /\ inputs.REVIEW_MODE \notin ReviewModes
UrlIsInvalid ==
    \/ parseUrl(inputs.LLM_BASE_URL) = None
    \/ parseUrl(inputs.LLM_BASE_URL)[1].protocol \notin {Chars("http:"), Chars("https:")}
ConfigRejected(text) ==
    /\ cfgOutcome[1].kind = "threw"
    /\ cfgOutcome[1].config = None
    /\ includes(cfgOutcome[1].message, Chars(text))

CallsOf(fn) == {k \in 1..Len(cfgLog) : cfgLog[k].fn = fn}

\* C26: whenever loadConfig returns a Config, the LLM API key and the GitHub
\* token have both been registered with setSecret before any configuration
\* line is logged, and neither value appears in a logged line.
C26_SecretsRegisteredFirst ==
    (cfgOutcome # None /\ cfgOutcome[1].kind = "returned") =>
        /\ \E k \in CallsOf("setSecret") : cfgLog[k].text = inputs.LLM_API_KEY
        /\ \E k \in CallsOf("setSecret") : cfgLog[k].text = inputs.GITHUB_TOKEN
        /\ \A i \in CallsOf("info") :
              /\ \E k \in 1..(i - 1) :
                    cfgLog[k] = CfgEvent("setSecret", inputs.LLM_API_KEY)
              /\ \E k \in 1..(i - 1) :
                    cfgLog[k] = CfgEvent("setSecret", inputs.GITHUB_TOKEN)
              /\ ~includes(cfgLog[i].text, inputs.LLM_API_KEY)
              /\ ~includes(cfgLog[i].text, inputs.GITHUB_TOKEN)

\* a Config was returned and its eight lines were logged
C26_Witness ==
    /\ cfgOutcome # None
    /\ cfgOutcome[1].kind = "returned"
    /\ Cardinality(CallsOf("info")) = 8
    /\ Cardinality(CallsOf("setSecret")) = 2
    /\ includes(cfgLog[5].text, inputs.LLM_MODEL)

(***************************************************************************)
(* Properties of repeated calls of the line helpers                        *)
(***************************************************************************)
MapCalls == {k \in 1..Len(lineCalls) : lineCalls[k].fn = "mapLineToDiff"}
ContentCalls == {k \in 1..Len(lineCalls) : lineCalls[k].fn = "getOriginalLineContent"}

C30_ContentByLineKind ==
    /\ \A k \in ContentCalls :
          LET p == lineCalls[k].arg
              lines == lineCalls[k].lines
              result == lineCalls[k].result
          IN  IF p < 1 \/ p > Len(lines) THEN result = None
              ELSE IF lines[p] # <<>> /\ lines[p][1] = "+"
              THEN result = Some(Tail(lines[p]))
              ELSE IF (lines[p] # <<>> /\ lines[p][1] = "-") \/ IsHunkHeader(lines[p])
              THEN result = None
              ELSE result = Some(lines[p])
    /\ \A i \in MapCalls : \A k \in ContentCalls :
          ( /\ lineCalls[i].result # None
            /\ lineCalls[k].arg = lineCalls[i].result[1]
            /\ lineCalls[k].lines = lineCalls[i].lines )
          => /\ lineCalls[k].result # None
             /\ lineCalls[k].result[1] = Tail(lineCalls[k].lines[lineCalls[k].arg])

\* the content of a position that mapLineToDiff returned was looked up, and
\* so was a removed line
C30_Witness ==
    /\ Len(lineCalls) = 3
    /\ lineCalls[1].fn = "mapLineToDiff"
    /\ lineCalls[1].result = Some(5)
    /\ lineCalls[2].fn = "getOriginalLineContent"
    /\ lineCalls[2].arg = 5
    /\ lineCalls[2].result = Some(Tail(AddLineB))
    /\ lineCalls[3].fn = "getOriginalLineContent"
    /\ lineCalls[3].arg = 4
    /\ lineCalls[3].result = None
    /\ blob[4] = DelLineX

(***************************************************************************)
(* Warnings and suspensions of withRetry                                   *)
(***************************************************************************)
\* C31: each retry is preceded by exactly one warning, naming the failed
\* attempt and the delay, followed by one suspension of that delay, in that
\* order, before the next invocation; nothing is logged or slept after a
\* success, a non-retryable failure or the final attempt, so a finished call
\* of n >= 1 invocations has n - 1 warnings and n - 1 suspensions.
C31_WarningThenSleep ==
    /\ \A i \in 1..Len(log) :
          /\ log[i].ev = "warning" =>
                /\ i > 1 /\ log[i - 1] = Event("fail", log[i].attempt, 0)
                /\ i < Len(log)
                /\ log[i + 1] = Event("sleep", log[i].attempt, log[i].delay)
                /\ log[i].delay = Min(config.backoffMs * Pow2(log[i].attempt - 1),
                                      config.maxBackoffMs)
          /\ log[i].ev = "sleep" => i > 1 /\ log[i - 1].ev = "warning"
          /\ (log[i].ev = "invoke" /\ log[i].attempt > 1) =>
                /\ i > 3
                /\ log[i - 1].ev = "wake"
                /\ log[i - 2].ev = "sleep" /\ log[i - 2].attempt = log[i].attempt - 1
                /\ log[i - 3].ev = "warning" /\ log[i - 3].attempt = log[i].attempt - 1
          /\ log[i].ev \in {"resolve", "reject"} => i = Len(log)
    /\ \A k \in 1..Len(Warnings) : Warnings[k].attempt = k
    /\ Len(Warnings) = Len(Sleeps)
    /\ (rpc = "done" /\ calls >= 1) =>
          /\ Len(Warnings) = calls - 1
          /\ Len(Sleeps) = calls - 1

\* three invocations, the last one failing as the final attempt, after two
\* warnings and two suspensions
C31_Witness ==
    /\ rpc = "done"
    /\ calls = 3
    /\ config.maxAttempts = 3
    /\ outcome.kind = "rejected"
    /\ Len(Warnings) = 2
    /\ Len(Sleeps) = 2

(***************************************************************************)
(* The maxFiles limit                                                      *)
(***************************************************************************)
\* the analysis calls made so far: one per file that was reviewed or failed,
\* and one per file in flight
AnalysisCalls ==
    Len(SelectSeq(fileLog, LAMBDA e : e.outcome \in {"reviewed", "failed"}))
        + Cardinality(inFlight)
\* the file of changedFiles that the k-th processed file is
ProcessedAreFirst(n) ==
    /\ Len(fileLog) + Cardinality(inFlight) <= n
    /\ \A k \in 1..Len(fileLog) : fileLog[k].filename = changedFiles[k].filename
    /\ \A name \in inFlight : name = changedFiles[Len(fileLog) + 1].filename
LimitOf(maxFiles) ==
    IF maxFiles \in {Number(n) : n \in 1..MaxFilesOpt}
    THEN Min(maxFiles[1], Len(changedFiles))
    ELSE Len(changedFiles)

\* C36: with maxFiles > 0 only the first maxFiles changed files, in the order
\* returned, are considered, so the analysis is called at most maxFiles times
\* and never for a removed or patch-less file; with maxFiles 0, negative or
\* not a number all changed files are considered; totalFiles is the number
\* of changed files in both cases.
C36_MaxFilesLimit ==
    /\ ProcessedAreFirst(LimitOf(runConfig.maxFiles))
    /\ AnalysisCalls <= LimitOf(runConfig.maxFiles)
    /\ \A k \in 1..Len(fileLog) :
          (changedFiles[k].status = "removed" \/ changedFiles[k].patch = <<>>)
              => fileLog[k].outcome = "skipped"
    /\ \A name \in inFlight : \A k \in 1..Len(changedFiles) :
          changedFiles[k].filename = name =>
              changedFiles[k].status # "removed" /\ changedFiles[k].patch # <<>>
    /\ LoopIsOver => Len(fileLog) = LimitOf(runConfig.maxFiles)
    /\ (RunHasReturned /\ changedFiles # <<>>) =>
          runOutcome[1].summary[1].totalFiles = Len(changedFiles)

\* of two changed files only the first was processed under maxFiles = 1
C36_Witness ==
    /\ runConfig.maxFiles = Number(1)
    /\ Len(changedFiles) = 2
    /\ RunHasReturned
    /\ Len(fileLog) = 1
    /\ fileLog[1].outcome = "reviewed"
    /\ runOutcome[1].summary[1].totalFiles = 2

\* both changed files were processed under a maxFiles that is not a number
C36_WitnessNaN ==
    /\ runConfig.maxFiles = NaN
    /\ Len(changedFiles) = 2
    /\ RunHasReturned
    /\ Len(fileLog) = 2

(***************************************************************************)
(* Severity totals of a run                                                *)
(***************************************************************************)
\* the issues the analysis reported for the files whose review completed, each
\* with the patch of its file
ReportedIssues ==
    Flatten([k \in 1..Len(fileLog) |->
                [j \in 1..Len(fileLog[k].reviews) |->
                    [issue |-> fileLog[k].reviews[j],
                     patch |-> changedFiles[k].patch]]])
ReportedWith(severities) ==
    Len(SelectSeq(ReportedIssues, LAMBDA r : r.issue.severity \in severities))
IssueIsMapped(r) ==
    \E p \in 1..Len(r.patch) :
        /\ r.patch[p] # <<>> /\ r.patch[p][1] = "+"
        /\ mapLineToDiff(r.issue.line, r.patch) = Some(p)

\* C33: the severity totals of a returned summary are the numbers of issues
\* reported for the successfully reviewed files, mapped or not, with "info"
\* counted under suggestions; so totalComments is at most the sum of the
\* three totals, and equal to it exactly when every reported issue mapped to
\* a diff position.
C33_SeverityTotals ==
    (RunHasReturned /\ changedFiles # <<>>) =>
        LET summary == runOutcome[1].summary[1]
            total == summary.criticalIssues + summary.warnings + summary.suggestions
        IN  /\ summary.criticalIssues = ReportedWith({"critical"})
            /\ summary.warnings = ReportedWith({"warning"})
            /\ summary.suggestions = ReportedWith({"suggestion", "info"})
            /\ total = Len(ReportedIssues)
            /\ summary.totalComments <= total
            /\ summary.totalComments = total
                   <=> \A k \in 1..Len(ReportedIssues) : IssueIsMapped(ReportedIssues[k])

\* a run with an unmapped critical issue in one file and a mapped warning and
\* a mapped info issue in the other: two comments, three counted issues
C33_Witness ==
    /\ RunHasReturned
    /\ Len(fileLog) = 2
    /\ runOutcome[1].summary[1].totalComments = 2
    /\ runOutcome[1].summary[1].criticalIssues = 1
    /\ runOutcome[1].summary[1].warnings = 1
    /\ runOutcome[1].summary[1].suggestions = 1
    /\ \E k \in 1..Len(ReportedIssues) : ReportedIssues[k].issue.severity = "info"

(***************************************************************************)
(* Order and mode of the delivery                                          *)
(***************************************************************************)
CallsTo(method) == {k \in 1..Len(deliveryLog) : deliveryLog[k].method = method}

\* C34: a delivery method is called only after every file has been processed
\* and the overall summary generated, and one mode is used per run: with
\* postAsReview a single createReview call and no other delivery call;
\* otherwise no createReview call, and with comments postReviewComments has
\* completed before postGeneralComment is called.
C34_DeliveryOrderAndMode ==
    /\ deliveryLog # <<>> =>
          /\ Len(fileLog) = Len(filesToReview)
          /\ inFlight = {}
          /\ overallSummary # None
    /\ runConfig.postAsReview =>
          /\ Len(deliveryLog) <= 1
          /\ CallsTo("createReview") = 1..Len(deliveryLog)
          /\ (RunHasReturned /\ changedFiles # <<>>) => Len(deliveryLog) = 1
    /\ ~runConfig.postAsReview =>
          /\ CallsTo("createReview") = {}
          /\ Cardinality(CallsTo("postReviewComments")) <= 1
          /\ Cardinality(CallsTo("postGeneralComment")) <= 1
          /\ \A k \in CallsTo("postReviewComments") : k = 1 /\ Len(allComments) > 0
          /\ \A k \in CallsTo("postGeneralComment") :
                IF Len(allComments) > 0
                THEN /\ k = 2
                     /\ deliveryLog[1].method = "postReviewComments"
                     /\ deliveryLog[1].result = "returned"
                ELSE k = 1

\* the line comments were posted, then the general comment
C34_Witness ==
    /\ ~runConfig.postAsReview
    /\ Len(allComments) > 0
    /\ Len(deliveryLog) = 2
    /\ deliveryLog[1].method = "postReviewComments"
    /\ deliveryLog[1].result = "returned"
    /\ deliveryLog[2].method = "postGeneralComment"
    /\ deliveryLog[2].result = "returned"
    /\ RunHasReturned

(***************************************************************************)
(* Properties of run, the entry point of the action                        *)
(***************************************************************************)
OutputsNamed(name) ==
    SelectSeq(actCalls, LAMBDA c : c.fn = "setOutput" /\ c.name = name)
OutputIs(name, text) ==
    /\ Len(OutputsNamed(name)) = 1
    /\ OutputsNamed(name)[1].value = Chars(text)
SetFailedCalls == SelectSeq(actCalls, LAMBDA c : c.fn = "setFailed")
ConfigLoaded == cfgOutcome # None /\ cfgOutcome[1].kind = "returned"

\* C35: every execution of run sets the status output: 'success' only if
\* runReview returned a summary, otherwise 'failed' together with
\* files-reviewed '0' and comments-posted '0'; setFailed is called only when
\* an error occurred, the configuration can be loaded again and its
\* failOnError is true, and never when loading the configuration is what
\* failed.
C35_StatusAndSetFailed ==
    /\ actPc = "ended" =>
          /\ Len(OutputsNamed("status")) = 1
          /\ OutputIs("status", "success") => RunHasReturned
          /\ ~OutputIs("status", "success") =>
                /\ OutputIs("status", "failed")
                /\ OutputIs("files-reviewed", "0")
                /\ OutputIs("comments-posted", "0")
    /\ actPc # "ended" => OutputsNamed("status") = <<>> /\ SetFailedCalls = <<>>
    /\ SetFailedCalls # <<>> =>
          /\ Len(SetFailedCalls) = 1
          /\ OutputIs("status", "failed")
          /\ ~RunHasReturned
          /\ ConfigLoaded
          /\ ~ModeIsInvalid /\ ~UrlIsInvalid
          /\ cfgOutcome[1].config[1].failOnError
          /\ inputs.FAIL_ON_ERROR = Chars("true")

\* runReview rejected, failOnError is set: status 'failed' and one setFailed
C35_Witness ==
    /\ actPc = "ended"
    /\ runOutcome # None
    /\ runOutcome[1].kind = "rejected"
    /\ OutputIs("status", "failed")
    /\ Len(SetFailedCalls) = 1

\* loading the configuration failed while FAIL_ON_ERROR is 'true'
C35_WitnessConfig ==
    /\ actPc = "ended"
    /\ cfgOutcome[1].kind = "threw"
    /\ inputs.FAIL_ON_ERROR = Chars("true")
    /\ OutputIs("status", "failed")
    /\ SetFailedCalls = <<>>

\* runReview returned a summary
C35_WitnessSuccess ==
    /\ actPc = "ended"
    /\ RunHasReturned
    /\ OutputIs("status", "success")
    /\ ~OutputIs("comments-posted", "0")

LineRequests == SelectSeq(posted, LAMBDA r : r.api = "pulls.createReviewComment")
GeneralRequests == SelectSeq(posted, LAMBDA r : r.api = "issues.createComment")
FailedLineRequests == SelectSeq(LineRequests, LAMBDA r : ~r.ok)
RunRejectedAt(method) ==
    /\ runOutcome # None
    /\ runOutcome[1].kind = "rejected"
    /\ runOutcome[1].cause = Some(method)

\* C32: a line comment that cannot be posted in postReviewComments is logged,
\* the remaining comments are still attempted in order and the general
\* comment is still posted afterwards; a failure of createReview or of
\* postGeneralComment propagates out of runReview and the action reports
\* status 'failed'; no other delivery failure ends the run.
C32_FailuresAbortOnlyCriticalCalls ==
    /\ \A k \in CallsTo("postReviewComments") :
          LineRequests # <<>> =>
             /\ deliveryLog[k].result = "returned"
             /\ ~RunRejectedAt("postReviewComments")
             /\ Len(LineRequests) = Len(allComments)
             /\ \A j \in 1..Len(LineRequests) :
                   /\ LineRequests[j].comments[1].path = allComments[j].path
                   /\ LineRequests[j].comments[1].line = allComments[j].line
                   /\ LineRequests[j].comments[1].body = allComments[j].body
             /\ Len(deliveryLog[k].warnings) = Len(FailedLineRequests)
             /\ \A j \in 1..Len(FailedLineRequests) :
                   /\ deliveryLog[k].warnings[j].path
                          = FailedLineRequests[j].comments[1].path
                   /\ deliveryLog[k].warnings[j].line
                          = FailedLineRequests[j].comments[1].line
             /\ runPc = "done" =>
                   /\ Len(GeneralRequests) = 1
                   /\ posted[Len(posted)].api = "issues.createComment"
    /\ \A k \in CallsTo("createReview") \cup CallsTo("postGeneralComment") :
          deliveryLog[k].result = "threw" =>
             /\ RunRejectedAt(deliveryLog[k].method)
             /\ actPc = "ended" => OutputIs("status", "failed")
    /\ \A method \in {"createReview", "postReviewComments", "postGeneralComment"} :
          RunRejectedAt(method) =>
             /\ deliveryLog[Len(deliveryLog)].method = method
             /\ deliveryLog[Len(deliveryLog)].result = "threw"
             /\ method = "postReviewComments" => LineRequests = <<>>

\* the first line comment could not be posted, the second and the general
\* comment were, and the action reports success
C32_Witness ==
    /\ Len(LineRequests) >= 2
    /\ ~LineRequests[1].ok
    /\ LineRequests[2].ok
    /\ Len(GeneralRequests) = 1
    /\ actPc = "ended"
    /\ OutputIs("status", "success")

\* createReview failed after its retries and the action reports 'failed'
C32_WitnessCritical ==
    /\ RunRejectedAt("createReview")
    /\ Len(posted) = 1
    /\ posted[1].end = "exhausted"
    /\ actPc = "ended"
    /\ OutputIs("status", "failed")

====
